---- MODULE Spec2Model ----
(***************************************************************************)
(* Model of the spatial network graph builder of orm-modeling:             *)
(* NetworkGraphBuilder (service.py) over the Point / Line records of       *)
(* model.py.  Coordinates are integers, a tolerance is a rational n/d,     *)
(* distances are compared through their squares.                           *)
(***************************************************************************)
EXTENDS Integers, Naturals, Sequences, FiniteSets, TLC

VARIABLES
    points,       \* tbl_point in id order: points[i] is the Point with id i
    lines,        \* tbl_line in id order
    point_cache,  \* NetworkGraphBuilder._point_cache: coordinate -> point id
    pre,          \* the store as it was when the last merge or split was called
    last          \* the last operation: its name, its arguments, its result; a
                  \* merge also tells whether it repeats the call made before it

vars == <<points, lines, point_cache, pre, last>>

(***************************************************************************)
(* Bounds of the model.                                                    *)
(***************************************************************************)
MaxX == 2          \* coordinates are drawn from 0..MaxX x 0..MaxY
MaxY == 0
MaxCreated == 2    \* no create call that would store more lines is made
MaxLines == 4      \* no split call that would store more lines is made
MaxPairs == 1      \* the longest coordinate_pairs list
MaxMargin == 2     \* margins are drawn from -1..MaxMargin
MaxListLen == 2    \* the longest list among the metadata values

(***************************************************************************)
(* Metadata values.  A value is a number, a boolean, a string or a list of *)
(* scalars.  As in Python a boolean is an integer (True == 1), so both     *)
(* carry their number in n; t keeps the type isinstance() sees.            *)
(***************************************************************************)
IntV(i) == [t |-> "int", n |-> i, s |-> "", l |-> <<>>]
BoolV(b) == [t |-> "bool", n |-> IF b THEN 1 ELSE 0, s |-> "", l |-> <<>>]
StrV(str) == [t |-> "str", n |-> 0, s |-> str, l |-> <<>>]
ListV(seq) == [t |-> "list", n |-> 0, s |-> "", l |-> seq]
\* Python's None, as dict.get() returns it for a missing key
NoneV == [t |-> "none", n |-> 0, s |-> "", l |-> <<>>]

\* isinstance(v, (int, float)): True for a bool as well
IsNumber(v) == v.t \in {"int", "bool"}
IsBool(v) == v.t = "bool"
IsStr(v) == v.t = "str"
IsList(v) == v.t = "list"

\* Python's == on scalars
ScalarEq(a, b) ==
    \/ IsNumber(a) /\ IsNumber(b) /\ a.n = b.n
    \/ IsStr(a) /\ IsStr(b) /\ a.s = b.s
    \/ a.t = "none" /\ b.t = "none"

\* Python's == on metadata values
PyEq(a, b) ==
    IF IsList(a) /\ IsList(b)
    THEN /\ Len(a.l) = Len(b.l)
         /\ \A i \in 1..Len(a.l) : ScalarEq(a.l[i], b.l[i])
    ELSE ~IsList(a) /\ ~IsList(b) /\ ScalarEq(a, b)

(***************************************************************************)
(* The metavar column: None (none = TRUE), or a dictionary: d maps the keys *)
(* present to their values.                                                *)
(***************************************************************************)
NoKeys == [k \in {} |-> NoneV]
NoMeta == [none |-> TRUE, d |-> NoKeys]
EmptyDict == [none |-> FALSE, d |-> NoKeys]

\* Point.get_metadata(key): the value, None when metavar is None or lacks key
get_metadata(mv, key) ==
    IF mv.none \/ key \notin DOMAIN mv.d THEN NoneV ELSE mv.d[key]

\* Point.set_metadata(key, value): creates the dictionary when it is None
set_metadata(mv, key, value) ==
    [none |-> FALSE,
     d |-> [k \in (DOMAIN mv.d) \cup {key} |-> IF k = key THEN value ELSE mv.d[k]]]

(***************************************************************************)
(* Records of the store.                                                   *)
(***************************************************************************)
\* Point(x=x, y=y): is_merged defaults to False, merged_into to None (0)
NewPoint(x, y) ==
    [x |-> x, y |-> y, is_merged |-> FALSE, merged_into |-> 0, metavar |-> NoMeta]

\* Line() with coords = (c0, c1): is_split defaults to False
NewLine(c0, c1, mv) ==
    [x1 |-> c0[1], y1 |-> c0[2], x2 |-> c1[1], y2 |-> c1[2],
     is_split |-> FALSE, metavar |-> mv]

coord(p) == <<p.x, p.y>>
start_coord(l) == <<l.x1, l.y1>>
end_coord(l) == <<l.x2, l.y2>>

\* Line.has_endpoint(coord)
has_endpoint(l, c) == start_coord(l) = c \/ end_coord(l) = c

\* Line.update_endpoint(old_coord, new_coord)
update_endpoint(l, old, new) ==
    LET a == IF start_coord(l) = old THEN [l EXCEPT !.x1 = new[1], !.y1 = new[2]] ELSE l
    IN  IF end_coord(a) = old THEN [a EXCEPT !.x2 = new[1], !.y2 = new[2]] ELSE a

\* the square of Point.distance_to_point(other_coord)
Distance2(p, c) == (p.x - c[1]) * (p.x - c[1]) + (p.y - c[2]) * (p.y - c[2])

\* a comparison distance < margin in place of distance <= margin
WithinMargin_strict(p, c, margin) == margin > 0 /\ Distance2(p, c) < margin * margin

\* the comparison behind a guard that returns early unless margin > 0
WithinMargin_positive(p, c, margin) == margin > 0 /\ Distance2(p, c) <= margin * margin

\* distance <= margin, for an integer margin
WithinMargin(p, c, margin) == margin >= 0 /\ Distance2(p, c) <= margin * margin

\* select(Point).where(Point.is_merged == False), as the ids in id order
RECURSIVE ActiveFrom(_, _)
ActiveFrom(pts, i) ==
    IF i > Len(pts) THEN <<>>
    ELSE IF pts[i].is_merged THEN ActiveFrom(pts, i + 1)
    ELSE <<i>> \o ActiveFrom(pts, i + 1)

ActivePointIds(pts) == ActiveFrom(pts, 1)

\* select(Line).where(Line.is_split == False), as the ids in id order
RECURSIVE ActiveLinesFrom(_, _)
ActiveLinesFrom(lns, i) ==
    IF i > Len(lns) THEN <<>>
    ELSE IF lns[i].is_split THEN ActiveLinesFrom(lns, i + 1)
    ELSE <<i>> \o ActiveLinesFrom(lns, i + 1)

ActiveLineIds(lns) == ActiveLinesFrom(lns, 1)

Range(seq) == {seq[i] : i \in 1..Len(seq)}

(***************************************************************************)
(* Metadata reconciliation.                                                *)
(***************************************************************************)
\* a plain concatenation, duplicates kept
Dedup_concat(seen, rest) == seen \o rest

\* list(dict.fromkeys(combined)): the first occurrence of every element
RECURSIVE Dedup(_, _)
Dedup(seen, rest) ==
    IF rest = <<>> THEN seen
    ELSE IF \E i \in 1..Len(seen) : ScalarEq(seen[i], rest[1])
         THEN Dedup(seen, Tail(rest))
         ELSE Dedup(Append(seen, rest[1]), Tail(rest))

\* the maximize class cut down to its first key
MaxKeys_first == {"capacity"}

MaxKeys == {"capacity", "priority_level", "area", "beds"}
AnyTrueKeys == {"emergency", "parking", "traffic_light"}
ConcatKeys == {"name", "type"}

\* f"{existing_value} / {new_value}"
Concat(a, b) == StrV(a.s \o " / " \o b.s)

_merge_metadata_values(key, existing_value, new_value) ==
    IF IsList(existing_value) /\ IsList(new_value)
    THEN ListV(Dedup(<<>>, existing_value.l \o new_value.l))
    ELSE IF IsNumber(existing_value) /\ IsNumber(new_value) /\ key \in MaxKeys
    THEN (IF new_value.n > existing_value.n THEN new_value ELSE existing_value)
    ELSE IF IsBool(existing_value) /\ IsBool(new_value) /\ key \in AnyTrueKeys
    THEN (IF existing_value.n = 1 THEN existing_value ELSE new_value)
    ELSE IF IsStr(existing_value) /\ IsStr(new_value)
            /\ existing_value.s # new_value.s /\ key \in ConcatKeys
    THEN Concat(existing_value, new_value)
    ELSE existing_value

\* the metavar of target_point after _merge_point_metadata(target, source)
\* the source's values written over the target's (dict.update)
_merge_point_metadata_update(target, source) ==
    IF source.none THEN target
    ELSE [none |-> FALSE,
          d |-> [k \in (DOMAIN target.d) \cup (DOMAIN source.d) |->
                    IF k \in DOMAIN source.d THEN source.d[k] ELSE target.d[k]]]

_merge_point_metadata(target, source) ==
    IF source.none THEN target
    ELSE [none |-> FALSE,
          d |-> [k \in (DOMAIN target.d) \cup (DOMAIN source.d) |->
                    IF k \notin DOMAIN target.d THEN source.d[k]
                    ELSE IF k \notin DOMAIN source.d THEN target.d[k]
                    ELSE _merge_metadata_values(k, target.d[k], source.d[k])]]

(***************************************************************************)
(* merge_nearby_points.  S is the store while the call runs: the points,   *)
(* the lines and the list merged_points.  ids is the list the call loaded. *)
(***************************************************************************)
\* a merge that forgets point2.is_merged = True
MergePair_unflagged(S, p1, p2) ==
    LET point1 == S.points[p1]
        point2 == S.points[p2]
        pts == [S.points EXCEPT
                   ![p1].metavar = _merge_point_metadata(point1.metavar, point2.metavar),
                   ![p2].merged_into = p1]
        lns == [i \in 1..Len(S.lines) |->
                   IF has_endpoint(S.lines[i], coord(point2))
                   THEN update_endpoint(S.lines[i], coord(point2), coord(point1))
                   ELSE S.lines[i]]
    IN  [points |-> pts, lines |-> lns, merged |-> Append(S.merged, p2)]

\* a merge that moves point1 to the coordinate of point2
MergePair_moved(S, p1, p2) ==
    LET point1 == S.points[p1]
        point2 == S.points[p2]
        pts == [S.points EXCEPT
                   ![p1].metavar = _merge_point_metadata(point1.metavar, point2.metavar),
                   ![p1].x = point2.x,
                   ![p1].y = point2.y,
                   ![p2].is_merged = TRUE,
                   ![p2].merged_into = p1]
        lns == [i \in 1..Len(S.lines) |->
                   IF has_endpoint(S.lines[i], coord(point1))
                   THEN update_endpoint(S.lines[i], coord(point1), coord(point2))
                   ELSE S.lines[i]]
    IN  [points |-> pts, lines |-> lns, merged |-> Append(S.merged, p2)]

\* the body of "if distance <= margin": point2 (id p2) is merged into point1
MergePair(S, p1, p2) ==
    LET point1 == S.points[p1]
        point2 == S.points[p2]
        pts == [S.points EXCEPT
                   ![p1].metavar = _merge_point_metadata(point1.metavar, point2.metavar),
                   ![p2].is_merged = TRUE,
                   ![p2].merged_into = p1]
        lns == [i \in 1..Len(S.lines) |->
                   IF has_endpoint(S.lines[i], coord(point2))
                   THEN update_endpoint(S.lines[i], coord(point2), coord(point1))
                   ELSE S.lines[i]]
    IN  [points |-> pts, lines |-> lns, merged |-> Append(S.merged, p2)]

\* a scan that also merges a point within the margin of a point already
\* merged into point1 (transitive clustering)
RECURSIVE MergeInner_clustered(_, _, _, _, _)
MergeInner_clustered(S, ids, i, j, margin) ==
    IF j > Len(ids) THEN S
    ELSE IF S.points[ids[j]].is_merged THEN MergeInner_clustered(S, ids, i, j + 1, margin)
    ELSE IF \E q \in 1..Len(S.points) :
                /\ q = ids[i] \/ S.points[q].merged_into = ids[i]
                /\ WithinMargin(S.points[q], coord(S.points[ids[j]]), margin)
         THEN MergeInner_clustered(MergePair(S, ids[i], ids[j]), ids, i, j + 1, margin)
         ELSE MergeInner_clustered(S, ids, i, j + 1, margin)

\* for j, point2 in enumerate(points[i+1:], start=i+1)
RECURSIVE MergeInner(_, _, _, _, _)
MergeInner(S, ids, i, j, margin) ==
    IF j > Len(ids) THEN S
    ELSE IF S.points[ids[j]].is_merged THEN MergeInner(S, ids, i, j + 1, margin)
    ELSE IF WithinMargin(S.points[ids[i]], coord(S.points[ids[j]]), margin)
         THEN MergeInner(MergePair(S, ids[i], ids[j]), ids, i, j + 1, margin)
         ELSE MergeInner(S, ids, i, j + 1, margin)

\* an inner loop that starts at point1 itself, enumerate(points[i:], start=i)
RECURSIVE MergeOuter_self(_, _, _, _)
MergeOuter_self(S, ids, i, margin) ==
    IF i > Len(ids) THEN S
    ELSE IF S.points[ids[i]].is_merged THEN MergeOuter_self(S, ids, i + 1, margin)
    ELSE MergeOuter_self(MergeInner(S, ids, i, i, margin), ids, i + 1, margin)

\* an outer loop that ends after the first point
MergeOuter_first(S, ids, i, margin) ==
    IF ids = <<>> THEN S ELSE MergeInner(S, ids, 1, 2, margin)

\* for i, point1 in enumerate(points)
RECURSIVE MergeOuter(_, _, _, _)
MergeOuter(S, ids, i, margin) ==
    IF i > Len(ids) THEN S
    ELSE IF S.points[ids[i]].is_merged THEN MergeOuter(S, ids, i + 1, margin)
    ELSE MergeOuter(MergeInner(S, ids, i, i + 1, margin), ids, i + 1, margin)

\* the store after merge_nearby_points(margin), and the list it returns
merge_nearby_points(pts, lns, margin) ==
    MergeOuter([points |-> pts, lines |-> lns, merged |-> <<>>],
               ActivePointIds(pts), 1, margin)

(***************************************************************************)
(* create_lines_from_coordinates.                                          *)
(***************************************************************************)
\* a lookup that sees the active points only
PointAt_active(pts, c) ==
    IF \E i \in 1..Len(pts) : ~pts[i].is_merged /\ coord(pts[i]) = c
    THEN CHOOSE i \in 1..Len(pts) : ~pts[i].is_merged /\ coord(pts[i]) = c
    ELSE 0

\* the id of the point stored at a coordinate, 0 when there is none
PointAt(pts, c) ==
    IF \E i \in 1..Len(pts) : coord(pts[i]) = c
    THEN CHOOSE i \in 1..Len(pts) : coord(pts[i]) = c
    ELSE 0

\* _get_or_create_point for the coordinates of order, one after the other,
\* skipping those the cache holds; S is the points and the cache so far
RECURSIVE FillCache(_, _)
FillCache(S, order) ==
    IF order = <<>> THEN S
    ELSE LET c == Head(order)
             found == PointAt(S.points, c)
             pts == IF found = 0 THEN Append(S.points, NewPoint(c[1], c[2])) ELSE S.points
             id == IF found = 0 THEN Len(pts) ELSE found
         IN  IF c \in DOMAIN S.cache THEN FillCache(S, Tail(order))
             ELSE FillCache([points |-> pts,
                             cache |-> [k \in (DOMAIN S.cache) \cup {c} |->
                                           IF k = c THEN id ELSE S.cache[k]]],
                            Tail(order))

\* the metadata given to the i-th line: set_metadata for every item of the
\* i-th dictionary, none for a dictionary without items or beyond the list
LineMeta(line_metadata, i) ==
    IF i <= Len(line_metadata) /\ DOMAIN line_metadata[i].d # {}
    THEN [none |-> FALSE, d |-> line_metadata[i].d]
    ELSE NoMeta

\* the lines created for coordinate_pairs, in order
NewLines(pts, cache, coordinate_pairs, line_metadata) ==
    [i \in 1..Len(coordinate_pairs) |->
        NewLine(coord(pts[cache[coordinate_pairs[i][1]]]),
                coord(pts[cache[coordinate_pairs[i][2]]]),
                LineMeta(line_metadata, i))]

\* unique_coords of a list of coordinate pairs
UniqueCoords(coordinate_pairs) ==
    UNION {{coordinate_pairs[i][1], coordinate_pairs[i][2]} : i \in 1..Len(coordinate_pairs)}

\* the orders in which a set can be iterated
Orders(S) ==
    {o \in [1..Cardinality(S) -> S] : \A i, j \in 1..Cardinality(S) : i # j => o[i] # o[j]}

\* a creation that makes the merged points it reuses active again
create_lines_from_coordinates_revive(pts, lns, cache, coordinate_pairs, line_metadata, order) ==
    LET S == FillCache([points |-> pts, cache |-> cache], order)
        created == NewLines(S.points, S.cache, coordinate_pairs, line_metadata)
        used == {S.cache[c] : c \in UniqueCoords(coordinate_pairs)}
    IN  [points |-> [i \in 1..Len(S.points) |->
                        IF i \in used
                        THEN [S.points[i] EXCEPT !.is_merged = FALSE, !.merged_into = 0]
                        ELSE S.points[i]],
         lines |-> lns \o created, cache |-> S.cache, created |-> created]

\* the store after create_lines_from_coordinates; order is the order in which
\* the set unique_coords is iterated; line_metadata is <<>> when it is omitted
create_lines_from_coordinates(pts, lns, cache, coordinate_pairs, line_metadata, order) ==
    LET S == FillCache([points |-> pts, cache |-> cache], order)
        created == NewLines(S.points, S.cache, coordinate_pairs, line_metadata)
    IN  [points |-> S.points, lines |-> lns \o created, cache |-> S.cache,
         created |-> created]

(***************************************************************************)
(* split_lines_on_points.  A tolerance is the rational tol.n / tol.d with  *)
(* tol.d > 0.  A segment goes from a to b, p is a point's coordinate.      *)
(***************************************************************************)
Dot(a, b, p) == (p[1] - a[1]) * (b[1] - a[1]) + (p[2] - a[2]) * (b[2] - a[2])
Cross(a, b, p) == (b[1] - a[1]) * (p[2] - a[2]) - (b[2] - a[2]) * (p[1] - a[1])
Dist2(a, b) == (b[1] - a[1]) * (b[1] - a[1]) + (b[2] - a[2]) * (b[2] - a[2])
Min(i, j) == IF i <= j THEN i ELSE j
Max(i, j) == IF i >= j THEN i ELSE j

\* line_geom.dwithin(point.to_shapely, tolerance): the distance from p to the
\* segment is at most the tolerance
dwithin(a, b, p, tol) ==
    /\ tol.n >= 0
    /\ IF Dist2(a, b) = 0 \/ Dot(a, b, p) <= 0
       THEN Dist2(a, p) * tol.d * tol.d <= tol.n * tol.n
       ELSE IF Dot(a, b, p) >= Dist2(a, b)
       THEN Dist2(b, p) * tol.d * tol.d <= tol.n * tol.n
       ELSE Cross(a, b, p) * Cross(a, b, p) * tol.d * tol.d
                <= tol.n * tol.n * Dist2(a, b)

\* point_tree.query(line_geom.buffer(tolerance)): the points inside the
\* envelope of the buffer.  The buffer of a line by a distance that is not
\* positive is the empty polygon, and an empty geometry matches nothing.
InBufferEnvelope(a, b, p, tol) ==
    /\ tol.n > 0
    /\ Min(a[1], b[1]) * tol.d - tol.n <= p[1] * tol.d
    /\ p[1] * tol.d <= Max(a[1], b[1]) * tol.d + tol.n
    /\ Min(a[2], b[2]) * tol.d - tol.n <= p[2] * tol.d
    /\ p[2] * tol.d <= Max(a[2], b[2]) * tol.d + tol.n

\* line_geom.project(ShapelyPoint(p)), times the length of the segment
project(a, b, p) ==
    IF Dist2(a, b) = 0 THEN 0
    ELSE Max(0, Min(Dot(a, b, p), Dist2(a, b)))

\* points_on_line without "if point.coord in line_endpoints: continue"
RECURSIVE points_on_line_unskipped(_, _, _, _)
points_on_line_unskipped(pts, l, tol, qorder) ==
    IF qorder = <<>> THEN <<>>
    ELSE LET c == coord(pts[Head(qorder)])
             rest == points_on_line_unskipped(pts, l, tol, Tail(qorder))
         IN  IF /\ InBufferEnvelope(start_coord(l), end_coord(l), c, tol)
                /\ dwithin(start_coord(l), end_coord(l), c, tol)
             THEN <<c>> \o rest
             ELSE rest

\* points_on_line for a line: qorder is the order in which the tree returns
\* the indices of the active points
RECURSIVE points_on_line(_, _, _, _)
points_on_line(pts, l, tol, qorder) ==
    IF qorder = <<>> THEN <<>>
    ELSE LET c == coord(pts[Head(qorder)])
             rest == points_on_line(pts, l, tol, Tail(qorder))
         IN  IF /\ InBufferEnvelope(start_coord(l), end_coord(l), c, tol)
                /\ c \notin {start_coord(l), end_coord(l)}
                /\ dwithin(start_coord(l), end_coord(l), c, tol)
             THEN <<c>> \o rest
             ELSE rest

\* list.sort(key=...): a stable sort, here by insertion
RECURSIVE InsertByKey(_, _, _, _)
InsertByKey(sorted, c, a, b) ==
    IF sorted = <<>> THEN <<c>>
    ELSE IF project(a, b, sorted[Len(sorted)]) <= project(a, b, c)
         THEN Append(sorted, c)
         ELSE Append(InsertByKey(SubSeq(sorted, 1, Len(sorted) - 1), c, a, b),
                     sorted[Len(sorted)])

RECURSIVE SortByProject(_, _, _)
SortByProject(cs, a, b) ==
    IF cs = <<>> THEN <<>>
    ELSE InsertByKey(SortByProject(SubSeq(cs, 1, Len(cs) - 1), a, b), cs[Len(cs)], a, b)

\* all_points of a line that is split, sorted along the line
all_points(l, on_line) ==
    SortByProject(<<start_coord(l)>> \o on_line \o <<end_coord(l)>>,
                  start_coord(l), end_coord(l))

\* the new line segments between consecutive points
Segments(ap) == [i \in 1..(Len(ap) - 1) |-> NewLine(ap[i], ap[i + 1], NoMeta)]

\* the split in which a segment takes the metadata of the line it is cut from
RECURSIVE SplitLoop_inherit(_, _, _, _, _)
SplitLoop_inherit(S, pts, lids, tol, qorder) ==
    IF lids = <<>> THEN S
    ELSE LET l == S.lines[Head(lids)]
             on_line == points_on_line(pts, l, tol, qorder)
             segs == Segments(all_points(l, on_line))
         IN  IF on_line = <<>> THEN SplitLoop_inherit(S, pts, Tail(lids), tol, qorder)
             ELSE SplitLoop_inherit(
                      [lines |-> [S.lines EXCEPT ![Head(lids)].is_split = TRUE],
                       new_lines |-> S.new_lines \o
                           [k \in 1..Len(segs) |-> [segs[k] EXCEPT !.metavar = l.metavar]]],
                      pts, Tail(lids), tol, qorder)

\* for line in lines: lids are the ids of the lines the call loaded
RECURSIVE SplitLoop(_, _, _, _, _)
SplitLoop(S, pts, lids, tol, qorder) ==
    IF lids = <<>> THEN S
    ELSE LET l == S.lines[Head(lids)]
             on_line == points_on_line(pts, l, tol, qorder)
         IN  IF on_line = <<>> THEN SplitLoop(S, pts, Tail(lids), tol, qorder)
             ELSE SplitLoop([lines |-> [S.lines EXCEPT ![Head(lids)].is_split = TRUE],
                             new_lines |-> S.new_lines \o Segments(all_points(l, on_line))],
                            pts, Tail(lids), tol, qorder)

\* the lines after split_lines_on_points(tolerance), and the list it returns
split_lines_on_points(pts, lns, tol, qorder) ==
    IF ActivePointIds(pts) = <<>> \/ ActiveLineIds(lns) = <<>>
    THEN [lines |-> lns, new_lines |-> <<>>]
    ELSE LET S == SplitLoop([lines |-> lns, new_lines |-> <<>>], pts,
                            ActiveLineIds(lns), tol, qorder)
         IN  [lines |-> S.lines \o S.new_lines, new_lines |-> S.new_lines]

(***************************************************************************)
(* create_igraph.  Vertices are numbered from 0: vertex i is the i-th      *)
(* active point; vs[i + 1] is its coordinate, es the list of edges.        *)
(***************************************************************************)
\* point_to_index[c]: the last vertex with that coordinate, -1 when absent
point_to_index(vs, c) ==
    IF \E i \in 1..Len(vs) : vs[i] = c
    THEN (CHOOSE i \in 1..Len(vs) : vs[i] = c /\ \A j \in 1..Len(vs) : vs[j] = c => j <= i) - 1
    ELSE -1

RECURSIVE Edges(_, _, _)
Edges(vs, lns, lids) ==
    IF lids = <<>> THEN <<>>
    ELSE LET l == lns[Head(lids)]
             s == point_to_index(vs, start_coord(l))
             e == point_to_index(vs, end_coord(l))
         IN  IF s >= 0 /\ e >= 0 THEN <<(<<s, e>>)>> \o Edges(vs, lns, Tail(lids))
             ELSE Edges(vs, lns, Tail(lids))

\* a graph that has a vertex for every point, merged or not
create_igraph_all_points(pts, lns) ==
    LET vs == [i \in 1..Len(pts) |-> coord(pts[i])]
    IN  [vs |-> vs, es |-> Edges(vs, lns, ActiveLineIds(lns))]

create_igraph(pts, lns) ==
    LET ids == ActivePointIds(pts)
        vs == [i \in 1..Len(ids) |-> coord(pts[ids[i]])]
    IN  [vs |-> vs, es |-> Edges(vs, lns, ActiveLineIds(lns))]

\* a degree that counts the edges at v, a self-loop once
degree_edges(g, v) ==
    Cardinality({i \in 1..Len(g.es) : g.es[i][1] = v \/ g.es[i][2] = v})

\* graph.degree(v): a self-loop counts twice
degree(g, v) ==
    Cardinality({i \in 1..Len(g.es) : g.es[i][1] = v})
    + Cardinality({i \in 1..Len(g.es) : g.es[i][2] = v})

\* the number of edges between two distinct vertices
Multiplicity(g, u, v) ==
    Cardinality({i \in 1..Len(g.es) : g.es[i] = <<u, v>> \/ g.es[i] = <<v, u>>})

\* graph.get_all_simple_paths(start_idx, end_idx): a depth-first search that
\* follows every edge to a vertex not yet on the path
RECURSIVE Repeat(_, _)
Repeat(seq, k) == IF k = 0 THEN <<>> ELSE seq \o Repeat(seq, k - 1)

RECURSIVE SearchFrom(_, _, _, _)
SearchFrom(g, path, to, v) ==
    IF v >= Len(g.vs) THEN <<>>
    ELSE LET u == path[Len(path)]
             rest == SearchFrom(g, path, to, v + 1)
             on_path == \E i \in 1..Len(path) : path[i] = v
         IN  IF on_path \/ Multiplicity(g, u, v) = 0 THEN rest
             ELSE IF v = to THEN Repeat(<<Append(path, v)>>, Multiplicity(g, u, v)) \o rest
             ELSE Repeat(SearchFrom(g, Append(path, v), to, 0), Multiplicity(g, u, v)) \o rest

get_all_simple_paths(g, from, to) == SearchFrom(g, <<from>>, to, 0)

(***************************************************************************)
(* The queries.  A filter is None or a dictionary, like metavar.           *)
(***************************************************************************)
\* the truth value of a filter: None and the empty dictionary are false
Truthy(f) == ~f.none /\ DOMAIN f.d # {}

\* _matches_filter(point, filter_conditions), mv being point.metavar
_matches_filter(mv, f) ==
    IF ~Truthy(mv) THEN FALSE
    ELSE \A key \in DOMAIN f.d : PyEq(get_metadata(mv, key), f.d[key])

\* next((p for p in points if p.coord == coord), None): the id, 0 for None
FirstActiveAt(pts, c) ==
    LET ids == ActivePointIds(pts)
    IN  IF \E i \in 1..Len(ids) : coord(pts[ids[i]]) = c
        THEN ids[CHOOSE i \in 1..Len(ids) :
                    /\ coord(pts[ids[i]]) = c
                    /\ \A j \in 1..(i - 1) : coord(pts[ids[j]]) # c]
        ELSE 0

\* point and self._matches_filter(point, f) for the point at a vertex
VertexMatches(pts, g, v, f) ==
    LET id == FirstActiveAt(pts, g.vs[v + 1])
    IN  id # 0 /\ _matches_filter(pts[id].metavar, f)

\* a check that looks at the first intermediate vertex only
_path_has_forbidden_intermediate_first(pts, path_indices, g, f) ==
    IF Len(path_indices) <= 2 THEN FALSE
    ELSE VertexMatches(pts, g, path_indices[2], f)

_path_has_forbidden_intermediate(pts, path_indices, g, f) ==
    IF Len(path_indices) <= 2 THEN FALSE
    ELSE \E k \in 2..(Len(path_indices) - 1) : VertexMatches(pts, g, path_indices[k], f)

\* a path_info whose length counts the vertices
PathInfo_vertices(g, s, e, path_indices) ==
    [start |-> s, end |-> e,
     path |-> [k \in 1..Len(path_indices) |-> g.vs[path_indices[k] + 1]],
     length |-> Len(path_indices),
     vertex_indices |-> path_indices]

\* a path_info with start and end taken for one another
PathInfo_swapped(g, s, e, path_indices) ==
    [start |-> e, end |-> s,
     path |-> [k \in 1..Len(path_indices) |-> g.vs[path_indices[k] + 1]],
     length |-> Len(path_indices) - 1,
     vertex_indices |-> path_indices]

\* the path_info dictionary
PathInfo(g, s, e, path_indices) ==
    [start |-> s, end |-> e,
     path |-> [k \in 1..Len(path_indices) |-> g.vs[path_indices[k] + 1]],
     length |-> Len(path_indices) - 1,
     vertex_indices |-> path_indices]

\* the paths of one pair that pass the check of the intermediate vertices
RECURSIVE KeepAllowed(_, _, _, _, _, _)
KeepAllowed(pts, g, paths, f, s, e) ==
    IF paths = <<>> THEN <<>>
    ELSE IF Truthy(f) /\ _path_has_forbidden_intermediate(pts, Head(paths), g, f)
         THEN KeepAllowed(pts, g, Tail(paths), f, s, e)
         ELSE <<PathInfo(g, s, e, Head(paths))>> \o KeepAllowed(pts, g, Tail(paths), f, s, e)

\* a lookup that starts from index 0 instead of None
VertexOf_zero(g, c) ==
    IF point_to_index(g.vs, c) >= 0 THEN point_to_index(g.vs, c)
    ELSE IF Len(g.vs) > 0 THEN 0 ELSE -1

\* the index of the last vertex with a coordinate, -1 for None
VertexOf(g, c) == point_to_index(g.vs, c)

get_paths_between_endpoints(pts, lns, start, end, avoid_intermediate_filter) ==
    LET g == create_igraph(pts, lns)
        start_idx == VertexOf(g, start)
        end_idx == VertexOf(g, end)
    IN  IF start_idx < 0 \/ end_idx < 0 THEN <<>>
        ELSE KeepAllowed(pts, g, get_all_simple_paths(g, start_idx, end_idx),
                         avoid_intermediate_filter, start, end)

\* the vertices of degree 1, in index order
RECURSIVE EndpointIndices(_, _)
EndpointIndices(g, v) ==
    IF v >= Len(g.vs) THEN <<>>
    ELSE IF degree(g, v) = 1 THEN <<v>> \o EndpointIndices(g, v + 1)
    ELSE EndpointIndices(g, v + 1)

RECURSIVE PairsFrom(_, _, _)
PairsFrom(cs, i, j) ==
    IF i > Len(cs) THEN <<>>
    ELSE IF j > Len(cs) THEN PairsFrom(cs, i + 1, i + 2)
    ELSE <<(<<cs[i], cs[j]>>)>> \o PairsFrom(cs, i, j + 1)

get_endpoint_pairs(pts, lns) ==
    LET g == create_igraph(pts, lns)
        endpoint_indices == EndpointIndices(g, 0)
        endpoint_coords == [k \in 1..Len(endpoint_indices) |-> g.vs[endpoint_indices[k] + 1]]
    IN  PairsFrom(endpoint_coords, 1, 2)

\* start_indices that fall back to the degree-1 vertices without is_end when
\* start_filter is None
RECURSIVE StartIndices_default(_, _, _, _)
StartIndices_default(pts, g, v, start_filter) ==
    IF v >= Len(g.vs) THEN <<>>
    ELSE LET id == FirstActiveAt(pts, g.vs[v + 1])
             is_end_value == get_metadata(pts[id].metavar, "is_end")
             ok == /\ id # 0
                   /\ degree(g, v) = 1
                   /\ (is_end_value.t = "none" \/ ScalarEq(is_end_value, BoolV(FALSE)))
                   /\ (~Truthy(start_filter) \/ _matches_filter(pts[id].metavar, start_filter))
         IN  IF ok THEN <<v>> \o StartIndices_default(pts, g, v + 1, start_filter)
             ELSE StartIndices_default(pts, g, v + 1, start_filter)

\* start_indices of get_all_endpoint_paths when a start or end filter is given
RECURSIVE StartIndices(_, _, _, _)
StartIndices(pts, g, v, start_filter) ==
    IF v >= Len(g.vs) THEN <<>>
    ELSE LET id == FirstActiveAt(pts, g.vs[v + 1])
             is_end_value == get_metadata(pts[id].metavar, "is_end")
             ok == /\ id # 0
                   /\ ~start_filter.none
                   /\ degree(g, v) = 1
                   /\ (is_end_value.t = "none" \/ ScalarEq(is_end_value, BoolV(FALSE)))
                   /\ (~Truthy(start_filter) \/ _matches_filter(pts[id].metavar, start_filter))
         IN  IF ok THEN <<v>> \o StartIndices(pts, g, v + 1, start_filter)
             ELSE StartIndices(pts, g, v + 1, start_filter)

RECURSIVE EndIndices(_, _, _, _)
EndIndices(pts, g, v, end_filter) ==
    IF v >= Len(g.vs) THEN <<>>
    ELSE IF ~end_filter.none /\ VertexMatches(pts, g, v, end_filter)
         THEN <<v>> \o EndIndices(pts, g, v + 1, end_filter)
         ELSE EndIndices(pts, g, v + 1, end_filter)

\* endpoint_indices after the legacy endpoint_filter
RECURSIVE FilterIndices(_, _, _, _)
FilterIndices(pts, g, idxs, f) ==
    IF idxs = <<>> THEN <<>>
    ELSE IF VertexMatches(pts, g, Head(idxs), f)
         THEN <<Head(idxs)>> \o FilterIndices(pts, g, Tail(idxs), f)
         ELSE FilterIndices(pts, g, Tail(idxs), f)

\* a loop that pairs a start with the later ends only, ends[i+1:]
RECURSIVE PairLoop_later(_, _, _, _, _, _, _, _)
PairLoop_later(pts, g, starts, ends, i, j, forbidden_filter, skip_filter) ==
    IF i > Len(starts) THEN <<>>
    ELSE IF j > Len(ends)
    THEN PairLoop_later(pts, g, starts, ends, i + 1, i + 2, forbidden_filter, skip_filter)
    ELSE LET s == starts[i]
             e == ends[j]
             rest == PairLoop_later(pts, g, starts, ends, i, j + 1, forbidden_filter, skip_filter)
         IN  IF s = e THEN rest
             ELSE IF Truthy(skip_filter) /\ VertexMatches(pts, g, s, skip_filter) THEN rest
             ELSE KeepAllowed(pts, g, get_all_simple_paths(g, s, e), forbidden_filter,
                              g.vs[s + 1], g.vs[e + 1]) \o rest

\* for start_idx in starts: for end_idx in ends: the paths of the pairs that
\* are not skipped; a start vertex that matches skip_filter is skipped
RECURSIVE PairLoop(_, _, _, _, _, _, _, _)
PairLoop(pts, g, starts, ends, i, j, forbidden_filter, skip_filter) ==
    IF i > Len(starts) THEN <<>>
    ELSE IF j > Len(ends) THEN PairLoop(pts, g, starts, ends, i + 1, 1, forbidden_filter, skip_filter)
    ELSE LET s == starts[i]
             e == ends[j]
             rest == PairLoop(pts, g, starts, ends, i, j + 1, forbidden_filter, skip_filter)
         IN  IF s = e THEN rest
             ELSE IF Truthy(skip_filter) /\ VertexMatches(pts, g, s, skip_filter) THEN rest
             ELSE KeepAllowed(pts, g, get_all_simple_paths(g, s, e), forbidden_filter,
                              g.vs[s + 1], g.vs[e + 1]) \o rest

get_all_endpoint_paths(pts, lns, endpoint_filter, start_filter, end_filter) ==
    LET g == create_igraph(pts, lns)
        separate == ~start_filter.none \/ ~end_filter.none
        endpoint_indices ==
            IF Truthy(endpoint_filter)
            THEN FilterIndices(pts, g, EndpointIndices(g, 0), endpoint_filter)
            ELSE EndpointIndices(g, 0)
        start_points == IF separate THEN StartIndices(pts, g, 0, start_filter) ELSE endpoint_indices
        end_points == IF separate THEN EndIndices(pts, g, 0, end_filter) ELSE endpoint_indices
    IN  PairLoop(pts, g, start_points, end_points, 1, 1,
                 IF separate THEN end_filter ELSE endpoint_filter,
                 IF separate THEN end_filter ELSE NoMeta)

\* the vertex index of the first coordinate of a list only
GroupIndices_head(g, cs) ==
    IF cs = <<>> \/ ~\E i \in 1..Len(g.vs) : g.vs[i] = Head(cs) THEN <<>>
    ELSE <<(CHOOSE i \in 1..Len(g.vs) :
               g.vs[i] = Head(cs) /\ \A j \in 1..(i - 1) : g.vs[j] # Head(cs)) - 1>>

\* the vertex indices of a list of coordinates, unresolved ones left out
\* (the first vertex with the coordinate)
RECURSIVE GroupIndices(_, _)
GroupIndices(g, cs) ==
    IF cs = <<>> THEN <<>>
    ELSE IF \E i \in 1..Len(g.vs) : g.vs[i] = Head(cs)
         THEN <<(CHOOSE i \in 1..Len(g.vs) :
                    g.vs[i] = Head(cs) /\ \A j \in 1..(i - 1) : g.vs[j] # Head(cs)) - 1>>
              \o GroupIndices(g, Tail(cs))
         ELSE GroupIndices(g, Tail(cs))

get_paths_between_point_groups(pts, lns, start_points, end_points, avoid_intermediate_filter) ==
    LET g == create_igraph(pts, lns)
    IN  PairLoop(pts, g, GroupIndices(g, start_points), GroupIndices(g, end_points), 1, 1,
                 avoid_intermediate_filter, NoMeta)

(***************************************************************************)
(* The builder as a state machine: one action per call.                    *)
(***************************************************************************)
Coords == (0..MaxX) \X (0..MaxY)
Margins == -1..MaxMargin
Tolerances == {[n |-> 0, d |-> 1], [n |-> 1, d |-> 10], [n |-> 1, d |-> 1]}

\* the lists of length 1..n over a set
RECURSIVE SeqsUpTo(_, _)
SeqsUpTo(S, n) ==
    IF n = 0 THEN {}
    ELSE [1..n -> S] \cup SeqsUpTo(S, n - 1)

PairInputs == SeqsUpTo(Coords \X Coords, MaxPairs)

Store == [points |-> points, lines |-> lines]
NoStore == [points |-> <<>>, lines |-> <<>>]

\* NetworkGraphBuilder(session) on an empty database
Init ==
    /\ points = <<>>
    /\ lines = <<>>
    /\ point_cache = [c \in {} |-> 0]
    /\ pre = NoStore
    /\ last = [op |-> "init"]

CreateLinesWith(coordinate_pairs, line_metadata) ==
    /\ Len(lines) + Len(coordinate_pairs) <= MaxCreated
    /\ \E order \in Orders(UniqueCoords(coordinate_pairs)) :
        LET r == create_lines_from_coordinates(points, lines, point_cache,
                                               coordinate_pairs, line_metadata, order)
        IN  /\ points' = r.points
            /\ lines' = r.lines
            /\ point_cache' = r.cache
            /\ pre' = NoStore
            /\ last' = [op |-> "create_lines_from_coordinates", result |-> r.created]

CreateLines ==
    \E coordinate_pairs \in PairInputs : CreateLinesWith(coordinate_pairs, <<>>)

MergeWith(margin) ==
    LET r == merge_nearby_points(points, lines, margin)
    IN  /\ points' = r.points
        /\ lines' = r.lines
        /\ pre' = Store
        /\ last' = [op |-> "merge_nearby_points", margin |-> margin, result |-> r.merged,
                    repeats |-> IF last.op = "merge_nearby_points" /\ last.margin = margin
                                THEN IF last.result # <<>> THEN "merge" ELSE "no-op"
                                ELSE "nothing"]
        /\ UNCHANGED point_cache

MergeNearbyPoints == \E margin \in Margins : MergeWith(margin)

\* the active points that lie on some active line: the order in which the
\* tree returns the other points has no effect
OnSomeLine(pts, lns, tol) ==
    {id \in Range(ActivePointIds(pts)) :
        \E k \in Range(ActiveLineIds(lns)) : points_on_line(pts, lns[k], tol, <<id>>) # <<>>}

SplitWith(tolerance) ==
    \E qorder \in Orders(OnSomeLine(points, lines, tolerance)) :
        LET r == split_lines_on_points(points, lines, tolerance, qorder)
        IN  /\ Len(r.lines) <= MaxLines
            /\ lines' = r.lines
            /\ pre' = Store
            /\ last' = [op |-> "split_lines_on_points", tolerance |-> tolerance,
                        result |-> r.new_lines]
            /\ UNCHANGED <<points, point_cache>>

SplitLinesOnPoints == \E tolerance \in Tolerances : SplitWith(tolerance)

GetEndpointPairs ==
    /\ pre' = NoStore
    /\ last' = [op |-> "get_endpoint_pairs", result |-> get_endpoint_pairs(points, lines)]
    /\ UNCHANGED <<points, lines, point_cache>>

Next ==
    \/ CreateLines
    \/ MergeNearbyPoints
    \/ SplitLinesOnPoints
    \/ GetEndpointPairs

Spec == Init /\ [][Next]_vars

(***************************************************************************)
(* Metadata reconciliation on its own: two points a unit apart that both   *)
(* hold a value under one key, added to the session as the tests do        *)
(* (Point(x=..., y=...), set_metadata, session.add_all), then merged.      *)
(***************************************************************************)
MetaKeys == {"capacity", "emergency", "name", "services", "hours"}
MetaScalars == {IntV(1), IntV(2), BoolV(TRUE), BoolV(FALSE), StrV("a"), StrV("b")}
MetaElements == {IntV(1), BoolV(TRUE), StrV("a")}

\* the lists of length 0..n over a set
RECURSIVE ListsUpTo(_, _)
ListsUpTo(S, n) ==
    IF n = 0 THEN {<<>>}
    ELSE [1..n -> S] \cup ListsUpTo(S, n - 1)

MetaValues == MetaScalars \cup {ListV(l) : l \in ListsUpTo(MetaElements, MaxListLen)}

PointWith(x, y, mv) == [NewPoint(x, y) EXCEPT !.metavar = mv]

InitMeta ==
    /\ \E key \in MetaKeys : \E v1, v2 \in MetaValues :
          points = <<PointWith(0, 0, set_metadata(NoMeta, key, v1)),
                     PointWith(1, 0, set_metadata(NoMeta, key, v2))>>
    /\ lines = <<>>
    /\ point_cache = [c \in {} |-> 0]
    /\ pre = NoStore
    /\ last = [op |-> "init"]

NextMeta == MergeNearbyPoints

SpecMeta == InitMeta /\ [][NextMeta]_vars

(***************************************************************************)
(* The queries on the networks of the tests: the points are added to the   *)
(* session one by one with their metadata (Point(x=..., y=...),            *)
(* set_metadata, session.add), the lines are created by the builder in one *)
(* call, then the graph is queried.                                        *)
(***************************************************************************)
\* A(0,0)-B(1,0)-C(2,0)-D(3,0) with the branch B(1,0)-E(1,1)
NetPoints == <<(<<0, 0>>), (<<1, 0>>), (<<2, 0>>), (<<3, 0>>), (<<1, 1>>)>>
NetPairs == <<(<<(<<0, 0>>), (<<1, 0>>)>>), (<<(<<1, 0>>), (<<2, 0>>)>>),
              (<<(<<2, 0>>), (<<3, 0>>)>>), (<<(<<1, 0>>), (<<1, 1>>)>>)>>
\* the same with the line C(2,0)-E(1,1), which closes the cycle B-C-E
CyclePairs == NetPairs \o <<(<<(<<2, 0>>), (<<1, 1>>)>>)>>
NetLists == {NetPairs, CyclePairs}

IsEnd(b) == set_metadata(NoMeta, "is_end", BoolV(b))
\* the metadata a point of the network may carry: is_end False on B only
NetMetadata(k) == IF k = 2 THEN {NoMeta, IsEnd(TRUE), IsEnd(FALSE)}
                  ELSE {NoMeta, IsEnd(TRUE)}
NetFilters == {NoMeta, IsEnd(TRUE)}
\* (endpoint_filter, start_filter, end_filter) of get_all_endpoint_paths
AllPathsInputs ==
    {<<NoMeta, NoMeta, NoMeta>>, <<IsEnd(TRUE), NoMeta, NoMeta>>,
     <<NoMeta, EmptyDict, IsEnd(TRUE)>>, <<NoMeta, NoMeta, IsEnd(TRUE)>>,
     <<NoMeta, EmptyDict, NoMeta>>}
NetGroups == {<<NetPoints[1]>>, <<NetPoints[4], NetPoints[5]>>}

\* session.add(point) for the next point of the network
AddPoint ==
    /\ lines = <<>>
    /\ Len(points) < Len(NetPoints)
    /\ \E mv \in NetMetadata(Len(points) + 1) :
          points' = Append(points, PointWith(NetPoints[Len(points) + 1][1],
                                             NetPoints[Len(points) + 1][2], mv))
    /\ pre' = NoStore
    /\ last' = [op |-> "add"]
    /\ UNCHANGED <<lines, point_cache>>

\* builder.create_lines_from_coordinates(coordinate_pairs) for a network
CreateNetwork ==
    /\ lines = <<>>
    /\ Len(points) = Len(NetPoints)
    /\ \E coordinate_pairs \in NetLists :
       \E order \in Orders(UniqueCoords(coordinate_pairs)) :
          LET r == create_lines_from_coordinates(points, lines, point_cache,
                                                 coordinate_pairs, <<>>, order)
          IN  /\ points' = r.points
              /\ lines' = r.lines
              /\ point_cache' = r.cache
              /\ pre' = NoStore
              /\ last' = [op |-> "create_lines_from_coordinates", result |-> r.created]

GetPathsBetweenEndpoints ==
    /\ lines # <<>>
    /\ \E s, e \in Range(NetPoints) : \E f \in NetFilters :
          /\ s # e
          /\ last' = [op |-> "get_paths_between_endpoints", start |-> s,
                      end |-> e,
                      filter |-> f,
                      result |-> get_paths_between_endpoints(points, lines, s, e, f)]
    /\ pre' = NoStore
    /\ UNCHANGED <<points, lines, point_cache>>

GetAllEndpointPaths ==
    /\ lines # <<>>
    /\ \E in \in AllPathsInputs :
          last' = [op |-> "get_all_endpoint_paths", endpoint_filter |-> in[1],
                   start_filter |-> in[2], filter |-> in[3],
                   result |-> get_all_endpoint_paths(points, lines, in[1], in[2], in[3])]
    /\ pre' = NoStore
    /\ UNCHANGED <<points, lines, point_cache>>

GetPathsBetweenPointGroups ==
    /\ lines # <<>>
    /\ \E ss, es \in NetGroups : \E f \in NetFilters :
          last' = [op |-> "get_paths_between_point_groups", start_points |-> ss,
                   end_points |-> es, filter |-> f,
                   result |-> get_paths_between_point_groups(points, lines, ss, es, f)]
    /\ pre' = NoStore
    /\ UNCHANGED <<points, lines, point_cache>>

NextNet ==
    \/ AddPoint
    \/ CreateNetwork
    \/ GetPathsBetweenEndpoints
    \/ GetAllEndpointPaths
    \/ GetPathsBetweenPointGroups
    \/ GetEndpointPairs

SpecNet == Init /\ [][NextNet]_vars

(***************************************************************************)
(* The operations on small and empty stores: points are added to the       *)
(* session without lines, as the tests do, or created by the builder; the  *)
(* queries are made with coordinates that are in the store and with one    *)
(* that is not.                                                            *)
(***************************************************************************)
QueryPoints == <<(<<0, 0>>), (<<1, 0>>), (<<3, 0>>)>>
\* (5,0) is the coordinate of no point
QueryCoords == Range(QueryPoints) \cup {<<5, 0>>}
QueryLists == {<<(<<(<<0, 0>>), (<<1, 0>>)>>)>>,
               <<(<<(<<0, 0>>), (<<1, 0>>)>>), (<<(<<1, 0>>), (<<3, 0>>)>>)>>}
QueryGroups == {<<(<<5, 0>>)>>, <<(<<5, 0>>), (<<0, 0>>)>>, <<(<<3, 0>>), (<<1, 0>>)>>}

\* session.add(Point(x=..., y=...)) for the next point
SessionAdd ==
    /\ lines = <<>>
    /\ Len(points) < Len(QueryPoints)
    /\ points' = Append(points, NewPoint(QueryPoints[Len(points) + 1][1],
                                         QueryPoints[Len(points) + 1][2]))
    /\ pre' = NoStore
    /\ last' = [op |-> "add"]
    /\ UNCHANGED <<lines, point_cache>>

\* builder.create_lines_from_coordinates(coordinate_pairs), while the store
\* holds fewer than two lines
CreateFew ==
    /\ Len(lines) < 2
    /\ \E coordinate_pairs \in QueryLists :
       \E order \in Orders(UniqueCoords(coordinate_pairs)) :
          LET r == create_lines_from_coordinates(points, lines, point_cache,
                                                 coordinate_pairs, <<>>, order)
          IN  /\ points' = r.points
              /\ lines' = r.lines
              /\ point_cache' = r.cache
              /\ pre' = NoStore
              /\ last' = [op |-> "create_lines_from_coordinates", result |-> r.created]

QueryPathsBetweenEndpoints ==
    /\ \E s, e \in QueryCoords :
          /\ last' = [op |-> "get_paths_between_endpoints", start |-> s,
                      end |-> e, filter |-> NoMeta,
                      result |-> get_paths_between_endpoints(points, lines, s, e, NoMeta)]
    /\ pre' = NoStore
    /\ UNCHANGED <<points, lines, point_cache>>

QueryAllEndpointPaths ==
    /\ \E in \in AllPathsInputs :
          last' = [op |-> "get_all_endpoint_paths", endpoint_filter |-> in[1],
                   start_filter |-> in[2], filter |-> in[3],
                   result |-> get_all_endpoint_paths(points, lines, in[1], in[2], in[3])]
    /\ pre' = NoStore
    /\ UNCHANGED <<points, lines, point_cache>>

QueryPathsBetweenPointGroups ==
    /\ \E ss, es \in QueryGroups :
          last' = [op |-> "get_paths_between_point_groups", start_points |-> ss,
                   end_points |-> es, filter |-> NoMeta,
                   result |-> get_paths_between_point_groups(points, lines, ss, es, NoMeta)]
    /\ pre' = NoStore
    /\ UNCHANGED <<points, lines, point_cache>>

NextQuery ==
    \/ SessionAdd
    \/ CreateFew
    \/ MergeNearbyPoints
    \/ SplitLinesOnPoints
    \/ GetEndpointPairs
    \/ QueryPathsBetweenEndpoints
    \/ QueryAllEndpointPaths
    \/ QueryPathsBetweenPointGroups

SpecQuery == Init /\ [][NextQuery]_vars

(***************************************************************************)
(* The start and end filters of get_all_endpoint_paths, on the star        *)
(* A(0,0)-B(1,0), B-C(2,0), B-D(1,1) whose points carry the keys is_end    *)
(* and type, as in the tests of the filters.                               *)
(***************************************************************************)
StarPoints == <<(<<0, 0>>), (<<1, 0>>), (<<2, 0>>), (<<1, 1>>)>>
StarPairs == <<(<<(<<0, 0>>), (<<1, 0>>)>>), (<<(<<1, 0>>), (<<2, 0>>)>>),
               (<<(<<1, 0>>), (<<1, 1>>)>>)>>

IsType == set_metadata(NoMeta, "type", StrV("terminal"))
IsEndType(b) == set_metadata(IsEnd(b), "type", StrV("terminal"))

\* the metadata a point of the star may carry
StarMetadata(k) ==
    IF k \in {1, 3}
    THEN {NoMeta, EmptyDict, IsEnd(TRUE), IsEnd(FALSE), IsType, IsEndType(TRUE),
          IsEndType(FALSE)}
    ELSE IF k = 2 THEN {NoMeta, IsEnd(TRUE), IsType}
    ELSE {NoMeta, IsEnd(TRUE), IsEndType(FALSE)}

\* (start_filter, end_filter): both given, or one of them only
StarFilters ==
    {<<EmptyDict, IsEnd(TRUE)>>, <<IsType, IsEnd(TRUE)>>, <<IsEnd(FALSE), IsEnd(TRUE)>>,
     <<EmptyDict, EmptyDict>>, <<IsType, IsType>>, <<EmptyDict, NoMeta>>,
     <<NoMeta, IsEnd(TRUE)>>}

\* session.add(point) for the next point of the star
AddStarPoint ==
    /\ lines = <<>>
    /\ Len(points) < Len(StarPoints)
    /\ \E mv \in StarMetadata(Len(points) + 1) :
          points' = Append(points, PointWith(StarPoints[Len(points) + 1][1],
                                             StarPoints[Len(points) + 1][2], mv))
    /\ pre' = NoStore
    /\ last' = [op |-> "add"]
    /\ UNCHANGED <<lines, point_cache>>

\* builder.create_lines_from_coordinates(coordinate_pairs) for the star
CreateStar ==
    /\ lines = <<>>
    /\ Len(points) = Len(StarPoints)
    /\ \E order \in Orders(UniqueCoords(StarPairs)) :
          LET r == create_lines_from_coordinates(points, lines, point_cache,
                                                 StarPairs, <<>>, order)
          IN  /\ points' = r.points
              /\ lines' = r.lines
              /\ point_cache' = r.cache
              /\ pre' = NoStore
              /\ last' = [op |-> "create_lines_from_coordinates", result |-> r.created]

\* builder.get_all_endpoint_paths(start_filter=..., end_filter=...)
GetFilteredPaths ==
    /\ lines # <<>>
    /\ \E in \in StarFilters :
          last' = [op |-> "get_all_endpoint_paths", endpoint_filter |-> NoMeta,
                   start_filter |-> in[1], filter |-> in[2],
                   result |-> get_all_endpoint_paths(points, lines, NoMeta, in[1], in[2])]
    /\ pre' = NoStore
    /\ UNCHANGED <<points, lines, point_cache>>

NextFilter ==
    \/ AddStarPoint
    \/ CreateStar
    \/ GetFilteredPaths

SpecFilter == Init /\ [][NextFilter]_vars

(***************************************************************************)
(* _matches_filter on its own: one point, with every metadata over the     *)
(* keys is_end and type, matched against every filter over them.           *)
(***************************************************************************)
\* the dictionaries over is_end and type, the empty one included
MatchDicts ==
    {[none |-> FALSE, d |-> d] :
        d \in UNION {[K -> {BoolV(TRUE), BoolV(FALSE), IntV(1), StrV("terminal"),
                            StrV("station")}] : K \in SUBSET {"is_end", "type"}}}

InitMatch ==
    /\ \E mv \in MatchDicts \cup {NoMeta} : points = <<PointWith(0, 0, mv)>>
    /\ lines = <<>>
    /\ point_cache = [c \in {} |-> 0]
    /\ pre = NoStore
    /\ last = [op |-> "init"]

\* builder._matches_filter(point, filter_conditions)
MatchesFilter ==
    /\ \E p \in 1..Len(points) : \E f \in MatchDicts :
          last' = [op |-> "_matches_filter", point |-> p, filter |-> f,
                   result |-> _matches_filter(points[p].metavar, f)]
    /\ pre' = NoStore
    /\ UNCHANGED <<points, lines, point_cache>>

NextMatch == MatchesFilter

SpecMatch == InitMatch /\ [][NextMatch]_vars

(***************************************************************************)
(* The merge of two points a unit apart whose metadata differ in shape:    *)
(* none, empty, one key, a key of their own.  The keys are those of the    *)
(* merge rules of _merge_metadata_values and those the examples use next   *)
(* to them.                                                                *)
(***************************************************************************)
ClassKeys == {"capacity", "priority", "priority_level", "area", "beds",
              "emergency", "toll", "parking", "traffic_light",
              "name", "type", "hours"}
OwnKey == "wifi"
KeyValues == {IntV(1), IntV(2), BoolV(TRUE), BoolV(FALSE), StrV("a"), StrV("b"),
              ListV(<<IntV(1)>>)}

TargetMetadata(key, v) == {NoMeta, EmptyDict, set_metadata(NoMeta, key, v)}
SourceMetadata(key, v) ==
    {NoMeta, EmptyDict, set_metadata(NoMeta, key, v), set_metadata(NoMeta, OwnKey, v),
     set_metadata(set_metadata(NoMeta, key, v), OwnKey, BoolV(TRUE))}

InitKeys ==
    /\ \E key \in ClassKeys : \E v1, v2 \in KeyValues :
          \E m1 \in TargetMetadata(key, v1) : \E m2 \in SourceMetadata(key, v2) :
              points = <<PointWith(0, 0, m1), PointWith(1, 0, m2)>>
    /\ lines = <<>>
    /\ point_cache = [c \in {} |-> 0]
    /\ pre = NoStore
    /\ last = [op |-> "init"]

NextKeys == MergeNearbyPoints

SpecKeys == InitKeys /\ [][NextKeys]_vars


(***************************************************************************)
(* The margin of merge_nearby_points on points added to the session one by *)
(* one, some of them at the coordinate of a point that is already there    *)
(* (tbl_point has no unique constraint on x, y).                           *)
(***************************************************************************)
MaxAdded == 3
MarginCoords == {<<0, 0>>, <<1, 0>>, <<2, 0>>}

\* session.add(Point(x=..., y=...)) at any coordinate
AddAnywhere ==
    /\ Len(points) < MaxAdded
    /\ \E c \in MarginCoords : points' = Append(points, NewPoint(c[1], c[2]))
    /\ pre' = NoStore
    /\ last' = [op |-> "add"]
    /\ UNCHANGED <<lines, point_cache>>

NextMargin ==
    \/ AddAnywhere
    \/ MergeNearbyPoints

SpecMargin == Init /\ [][NextMargin]_vars


(***************************************************************************)
(* The engines and the queries on a store with metadata: points added to   *)
(* the session with or without a name, lines created with a metadata list  *)
(* that is shorter than, as long as or longer than the list of pairs.      *)
(***************************************************************************)
FramePoints == <<(<<0, 0>>), (<<1, 0>>), (<<2, 0>>)>>
FrameLists == {<<(<<(<<0, 0>>), (<<2, 0>>)>>)>>,
               <<(<<(<<0, 0>>), (<<1, 0>>)>>), (<<(<<0, 0>>), (<<2, 0>>)>>)>>}
Named == set_metadata(NoMeta, "name", StrV("a"))
Road == set_metadata(NoMeta, "road_type", StrV("highway"))
Street == set_metadata(NoMeta, "road_type", StrV("street"))
FrameLineMetadata == {<<>>, <<Road>>, <<EmptyDict, Street>>, <<Road, Street>>}

\* session.add(point) for the next point, with or without metadata
AddFramePoint ==
    /\ lines = <<>>
    /\ Len(points) < Len(FramePoints)
    /\ \E mv \in {NoMeta, Named} :
          points' = Append(points, PointWith(FramePoints[Len(points) + 1][1],
                                             FramePoints[Len(points) + 1][2], mv))
    /\ pre' = NoStore
    /\ last' = [op |-> "add"]
    /\ UNCHANGED <<lines, point_cache>>

\* builder.create_lines_from_coordinates(coordinate_pairs, line_metadata)
CreateWithMetadata ==
    /\ lines = <<>>
    /\ \E coordinate_pairs \in FrameLists : \E line_metadata \in FrameLineMetadata :
       \E order \in Orders(UniqueCoords(coordinate_pairs)) :
          LET r == create_lines_from_coordinates(points, lines, point_cache,
                                                 coordinate_pairs, line_metadata, order)
          IN  /\ points' = r.points
              /\ lines' = r.lines
              /\ point_cache' = r.cache
              /\ pre' = NoStore
              /\ last' = [op |-> "create_lines_from_coordinates",
                          coordinate_pairs |-> coordinate_pairs,
                          line_metadata |-> line_metadata, result |-> r.created]

NextFrame ==
    \/ AddFramePoint
    \/ CreateWithMetadata
    \/ MergeNearbyPoints
    \/ SplitLinesOnPoints
    \/ GetEndpointPairs
    \/ QueryPathsBetweenEndpoints
    \/ QueryAllEndpointPaths
    \/ QueryPathsBetweenPointGroups

SpecFrame == Init /\ [][NextFrame]_vars


(***************************************************************************)
(* The three path queries side by side on the star, whose points may carry *)
(* is_end; after the lines are created a point may be added to the session *)
(* at the coordinate of a point of the star (tbl_point has no unique       *)
(* constraint on x, y).                                                    *)
(***************************************************************************)
GroupFilters == {NoMeta, EmptyDict, IsEnd(TRUE)}
GroupLists == {<<StarPoints[1]>>, <<StarPoints[2]>>, <<StarPoints[1], StarPoints[3]>>,
               <<StarPoints[3], StarPoints[4], StarPoints[1]>>}

\* session.add(point) for the next point of the star
AddGroupPoint ==
    /\ lines = <<>>
    /\ Len(points) < Len(StarPoints)
    /\ \E mv \in {NoMeta, IsEnd(TRUE)} :
          points' = Append(points, PointWith(StarPoints[Len(points) + 1][1],
                                             StarPoints[Len(points) + 1][2], mv))
    /\ pre' = NoStore
    /\ last' = [op |-> "add"]
    /\ UNCHANGED <<lines, point_cache>>

\* session.add(Point(x=..., y=...)) at the coordinate of A or of B, once
AddCoincident ==
    /\ lines # <<>>
    /\ Len(points) = Len(StarPoints)
    /\ \E k \in 1..2 : points' = Append(points, NewPoint(StarPoints[k][1], StarPoints[k][2]))
    /\ pre' = NoStore
    /\ last' = [op |-> "add"]
    /\ UNCHANGED <<lines, point_cache>>

PairQuery ==
    /\ lines # <<>>
    /\ \E s, e \in Range(StarPoints) : \E f \in GroupFilters :
          last' = [op |-> "get_paths_between_endpoints", start |-> s, end |-> e,
                   filter |-> f,
                   result |-> get_paths_between_endpoints(points, lines, s, e, f)]
    /\ pre' = NoStore
    /\ UNCHANGED <<points, lines, point_cache>>

GroupQuery ==
    /\ lines # <<>>
    /\ \E ss, es \in GroupLists : \E f \in GroupFilters :
          last' = [op |-> "get_paths_between_point_groups", start_points |-> ss,
                   end_points |-> es, filter |-> f,
                   result |-> get_paths_between_point_groups(points, lines, ss, es, f)]
    /\ pre' = NoStore
    /\ UNCHANGED <<points, lines, point_cache>>

AllQuery ==
    /\ lines # <<>>
    /\ last' = [op |-> "get_all_endpoint_paths", endpoint_filter |-> NoMeta,
                start_filter |-> NoMeta, filter |-> NoMeta,
                result |-> get_all_endpoint_paths(points, lines, NoMeta, NoMeta, NoMeta)]
    /\ pre' = NoStore
    /\ UNCHANGED <<points, lines, point_cache>>

NextGroups ==
    \/ AddGroupPoint
    \/ CreateStar
    \/ AddCoincident
    \/ PairQuery
    \/ GroupQuery
    \/ AllQuery

SpecGroups == Init /\ [][NextGroups]_vars


(***************************************************************************)
(* Properties.  The geometry they use is stated here on its own, apart     *)
(* from the operators of the model.                                        *)
(***************************************************************************)
Sq(i) == i * i

\* the Euclidean distance of two points is at most the margin
Close(p, q, margin) == margin >= 0 /\ Sq(p.x - q.x) + Sq(p.y - q.y) <= Sq(margin)

IsRoot(pts, p) == ~pts[p].is_merged

CoordsOf(pts, ids) == {<<pts[i].x, pts[i].y>> : i \in ids}
Roots(pts) == {p \in 1..Len(pts) : IsRoot(pts, p)}
Merged(pts) == {p \in 1..Len(pts) : ~IsRoot(pts, p)}

\* the point reached from p by at most k steps along merged_into, 0 when the
\* steps end at no point or do not reach a root
RECURSIVE Follow(_, _, _)
Follow(pts, p, k) ==
    IF p = 0 THEN 0
    ELSE IF IsRoot(pts, p) THEN p
    ELSE IF k = 0 THEN 0
    ELSE Follow(pts, pts[p].merged_into, k - 1)

ReachesRoot(pts, p) == Follow(pts, p, Len(pts)) # 0

AfterMerge == last.op = "merge_nearby_points"

\* the pairs of roots of the store before the call that are within the margin
ClosePairs ==
    {pq \in Roots(pre.points) \X Roots(pre.points) :
        pq[1] # pq[2] /\ Close(pre.points[pq[1]], pre.points[pq[2]], last.margin)}

\* C1 as stated: after merge_nearby_points(margin), of every two points that
\* were roots within the margin of each other exactly one is no longer a
\* root, and its merged_into chain reaches a root
C1_ExactlyOneMerged ==
    AfterMerge =>
        \A pq \in ClosePairs :
            /\ IsRoot(points, pq[1]) # IsRoot(points, pq[2])
            /\ \A p \in {pq[1], pq[2]} : ReachesRoot(points, p)

\* C1 as amended: at least one of the two is no longer a root (both, when
\* they were merged into the same earlier root), and the merged_into chain of
\* each of them reaches a root
C1_SomeMerged ==
    AfterMerge =>
        \A pq \in ClosePairs :
            /\ ~IsRoot(points, pq[1]) \/ ~IsRoot(points, pq[2])
            /\ \A p \in {pq[1], pq[2]} : ReachesRoot(points, p)

\* a merge has merged two points that were within the margin of each other
\* into a third one, and another pair into one another
C1_Witness ==
    /\ AfterMerge
    /\ \E pq \in ClosePairs : ~IsRoot(points, pq[1]) /\ ~IsRoot(points, pq[2])
    /\ \E pq \in ClosePairs : IsRoot(points, pq[1]) /\ points[pq[2]].merged_into = pq[1]

\* C2: a merge_nearby_points(margin) call made right after another one with
\* the same margin returns an empty list and changes no point and no line
\* (their metadata included)
C2_MergeIdempotent ==
    (AfterMerge /\ last.repeats # "nothing") =>
        /\ last.result = <<>>
        /\ points = pre.points
        /\ lines = pre.lines

\* the second of two merges with the same margin, the first of which merged
\* points and rewrote a line
C2_Witness ==
    /\ AfterMerge
    /\ last.repeats = "merge"
    /\ \E i \in 1..Len(lines) : lines[i].x1 = lines[i].x2 /\ lines[i].y1 = lines[i].y2

\* C3 as stated: when merge_nearby_points has merged P2 into P1, every line
\* end that was at P2's coordinate is at P1's coordinate, and when the call
\* returns no line has an end at the coordinate of a merged point
C3_EndpointsRewritten ==
    AfterMerge =>
        /\ \A k \in 1..Len(last.result) :
              LET p2 == points[last.result[k]]
                  p1 == points[p2.merged_into]
              IN  \A i \in 1..Len(pre.lines) :
                     /\ (pre.lines[i].x1 = p2.x /\ pre.lines[i].y1 = p2.y)
                           => (lines[i].x1 = p1.x /\ lines[i].y1 = p1.y)
                     /\ (pre.lines[i].x2 = p2.x /\ pre.lines[i].y2 = p2.y)
                           => (lines[i].x2 = p1.x /\ lines[i].y2 = p1.y)
        /\ \A i \in 1..Len(lines) :
              /\ <<lines[i].x1, lines[i].y1>> \notin CoordsOf(points, Merged(points))
              /\ <<lines[i].x2, lines[i].y2>> \notin CoordsOf(points, Merged(points))

\* C4 as stated: both ends of every active line are at the coordinate of an
\* active point
C4_ActiveLinesOnActivePoints ==
    \A i \in 1..Len(lines) :
        ~lines[i].is_split =>
            /\ <<lines[i].x1, lines[i].y1>> \in CoordsOf(points, Roots(points))
            /\ <<lines[i].x2, lines[i].y2>> \in CoordsOf(points, Roots(points))

\* the square of the distance from p to the segment a-b, as a fraction
SegDist2(a, b, p) ==
    LET len2 == Sq(b[1] - a[1]) + Sq(b[2] - a[2])
        t == (p[1] - a[1]) * (b[1] - a[1]) + (p[2] - a[2]) * (b[2] - a[2])
    IN  IF len2 = 0 \/ t <= 0
        THEN [num |-> Sq(p[1] - a[1]) + Sq(p[2] - a[2]), den |-> 1]
        ELSE IF t >= len2
        THEN [num |-> Sq(p[1] - b[1]) + Sq(p[2] - b[2]), den |-> 1]
        ELSE [num |-> Sq((b[1] - a[1]) * (p[2] - a[2]) - (b[2] - a[2]) * (p[1] - a[1])),
              den |-> len2]

\* the distance from p to the segment a-b is at most the tolerance
NearSegment(a, b, p, tol) ==
    tol.n >= 0 /\ SegDist2(a, b, p).num * Sq(tol.d) <= Sq(tol.n) * SegDist2(a, b, p).den

\* how far along the segment a-b the point p projects, from a, in units of
\* 1 / length
Along(a, b, p) ==
    LET len2 == Sq(b[1] - a[1]) + Sq(b[2] - a[2])
        t == (p[1] - a[1]) * (b[1] - a[1]) + (p[2] - a[2]) * (b[2] - a[2])
    IN  IF t <= 0 THEN 0 ELSE IF t >= len2 THEN len2 ELSE t

AfterSplit == last.op = "split_lines_on_points"

LineStart(l) == <<l.x1, l.y1>>
LineEnd(l) == <<l.x2, l.y2>>
PointCoord(p) == <<p.x, p.y>>

\* the lines that were active when the call was made
ActiveBefore == {i \in 1..Len(pre.lines) : ~pre.lines[i].is_split}

\* the split points of line i of the store before the call: the active points
\* away from its ends that are within the tolerance of its segment
SplitPoints(i) ==
    {p \in Roots(pre.points) :
        /\ PointCoord(pre.points[p]) \notin {LineStart(pre.lines[i]), LineEnd(pre.lines[i])}
        /\ NearSegment(LineStart(pre.lines[i]), LineEnd(pre.lines[i]),
                       PointCoord(pre.points[p]), last.tolerance)}

SegmentsOf(i) == Cardinality(SplitPoints(i)) + 1

\* the number of segments of a set of lines
RECURSIVE SumSegments(_)
SumSegments(S) ==
    IF S = {} THEN 0
    ELSE LET i == CHOOSE j \in S : TRUE IN SegmentsOf(i) + SumSegments(S \ {i})

\* the segments start-p1, p1-p2, ..., pk-end of line i for the split points in
\* the order ord
Chain(i, ord) ==
    LET cs == <<LineStart(pre.lines[i])>>
              \o [k \in 1..Len(ord) |-> PointCoord(pre.points[ord[k]])]
              \o <<LineEnd(pre.lines[i])>>
    IN  [k \in 1..(Len(cs) - 1) |->
            [x1 |-> cs[k][1], y1 |-> cs[k][2], x2 |-> cs[k + 1][1], y2 |-> cs[k + 1][2]]]

EndsOf(l) == [x1 |-> l.x1, y1 |-> l.y1, x2 |-> l.x2, y2 |-> l.y2]

\* C6 as stated: split_lines_on_points(tolerance) splits every active line
\* that has k >= 1 split points into the k + 1 new active lines start-p1,
\* p1-p2, ..., pk-end, the split points taken in the order of their projected
\* distance from the start of the line, and marks the line split
C6_SplitComplete ==
    AfterSplit =>
        /\ Len(lines) = Len(pre.lines) + Len(last.result)
        /\ \A k \in 1..Len(last.result) :
              lines[Len(pre.lines) + k] = last.result[k] /\ ~last.result[k].is_split
        /\ Len(last.result) =
              SumSegments({i \in ActiveBefore : SplitPoints(i) # {}})
        /\ \A i \in ActiveBefore :
              SplitPoints(i) # {} =>
                 /\ lines[i].is_split
                 /\ \E ord \in Orders(SplitPoints(i)) :
                       /\ \A k \in 1..(Len(ord) - 1) :
                             Along(LineStart(pre.lines[i]), LineEnd(pre.lines[i]),
                                   PointCoord(pre.points[ord[k]]))
                             <= Along(LineStart(pre.lines[i]), LineEnd(pre.lines[i]),
                                      PointCoord(pre.points[ord[k + 1]]))
                       /\ \E j \in 0..(Len(last.result) - Len(ord) - 1) :
                             \A k \in 1..(Len(ord) + 1) :
                                EndsOf(last.result[j + k]) = Chain(i, ord)[k]

\* the same for the calls with a positive tolerance only
C6_SplitCompletePositive ==
    (AfterSplit /\ last.tolerance.n <= 0) \/ C6_SplitComplete

\* C7: split_lines_on_points leaves an active line that has no split point
\* as it is, and creates segments for the other lines only
C7_SplitNoOp ==
    AfterSplit =>
        /\ \A i \in ActiveBefore : SplitPoints(i) = {} => lines[i] = pre.lines[i]
        /\ Len(last.result) =
              SumSegments({i \in ActiveBefore : lines[i].is_split})
        /\ Len(lines) = Len(pre.lines) + Len(last.result)

\* a split that has split one line and left alone another one, which has
\* active points at its ends
C7_Witness ==
    /\ AfterSplit
    /\ last.result # <<>>
    /\ \E i \in ActiveBefore :
          /\ SplitPoints(i) = {}
          /\ ~lines[i].is_split
          /\ LineStart(lines[i]) \in CoordsOf(points, Roots(points))
          /\ LineEnd(lines[i]) \in CoordsOf(points, Roots(points))

\* the elements of a list that no earlier element equals, in their order
RECURSIVE FirstSeen(_, _)
FirstSeen(seq, i) ==
    IF i > Len(seq) THEN <<>>
    ELSE IF \E j \in 1..(i - 1) : ScalarEq(seq[j], seq[i]) THEN FirstSeen(seq, i + 1)
    ELSE <<seq[i]>> \o FirstSeen(seq, i + 1)

\* point 2 has been merged into point 1 and both held a value under key
MergedOn(key) ==
    /\ AfterMerge
    /\ last.result = <<2>>
    /\ points[2].merged_into = 1
    /\ ~pre.points[1].metavar.none /\ key \in DOMAIN pre.points[1].metavar.d
    /\ ~pre.points[2].metavar.none /\ key \in DOMAIN pre.points[2].metavar.d

\* C5: when P2 is merged into P1 and both hold a value under a key, P1 then
\* holds: for two lists their union without duplicates in first-seen order;
\* for two numbers under "capacity" the larger one; for two booleans under
\* "emergency" their disjunction
C5_MetadataReconciled ==
    \A key \in MetaKeys :
        MergedOn(key) =>
            LET v1 == pre.points[1].metavar.d[key]
                v2 == pre.points[2].metavar.d[key]
                r == points[1].metavar.d[key]
            IN  /\ (v1.t = "list" /\ v2.t = "list") =>
                      /\ r.t = "list"
                      /\ r.l = FirstSeen(v1.l \o v2.l, 1)
                      /\ \A i, j \in 1..Len(r.l) : i # j => ~ScalarEq(r.l[i], r.l[j])
                      /\ \A i \in 1..Len(v1.l) : \E j \in 1..Len(r.l) : ScalarEq(r.l[j], v1.l[i])
                      /\ \A i \in 1..Len(v2.l) : \E j \in 1..Len(r.l) : ScalarEq(r.l[j], v2.l[i])
                /\ (key = "capacity" /\ v1.t = "int" /\ v2.t = "int") =>
                      /\ r.t = "int"
                      /\ r.n >= v1.n /\ r.n >= v2.n /\ r.n \in {v1.n, v2.n}
                /\ (key = "emergency" /\ v1.t = "bool" /\ v2.t = "bool") =>
                      /\ r.t = "bool"
                      /\ (r.n = 1) <=> (v1.n = 1 \/ v2.n = 1)

\* a merge of two lists of which the second brings an element the first has
\* and one it has not
C5_Witness ==
    \E key \in MetaKeys :
        /\ MergedOn(key)
        /\ LET v1 == pre.points[1].metavar.d[key]
               v2 == pre.points[2].metavar.d[key]
           IN  /\ v1.t = "list" /\ v2.t = "list"
               /\ Len(points[1].metavar.d[key].l) < Len(v1.l) + Len(v2.l)
               /\ Len(points[1].metavar.d[key].l) > Len(v1.l)


(***************************************************************************)
(* The graph and its queries.                                              *)
(***************************************************************************)
\* the coordinates of the active points: the vertices of the graph
Vertices == CoordsOf(points, Roots(points))

\* the number of start and end references of the active lines to a coordinate
References(c) ==
    Cardinality({i \in 1..Len(lines) : ~lines[i].is_split /\ LineStart(lines[i]) = c})
    + Cardinality({i \in 1..Len(lines) : ~lines[i].is_split /\ LineEnd(lines[i]) = c})

\* the degree of the vertex at a coordinate in the graph create_igraph builds
DegreeAt(c) ==
    LET g == create_igraph(points, lines)
    IN  degree(g, VertexOf(g, c))

\* the number of times get_endpoint_pairs returned a pair, in either order
TimesReturned(c1, c2) ==
    Cardinality({k \in 1..Len(last.result) :
                    last.result[k] = <<c1, c2>> \/ last.result[k] = <<c2, c1>>})

\* C8: when get_endpoint_pairs returns, the degree of every vertex of the
\* graph is the number of active-line endpoint references to its coordinate,
\* and the result holds every unordered pair of distinct vertices of degree 1
\* exactly once and no other pair.
C8_DegreeCorrect ==
    last.op = "get_endpoint_pairs" =>
        /\ \A c \in Vertices : DegreeAt(c) = References(c)
        /\ \A c1, c2 \in Vertices :
              TimesReturned(c1, c2) =
                  IF c1 # c2 /\ DegreeAt(c1) = 1 /\ DegreeAt(c2) = 1 THEN 1 ELSE 0
        /\ \A k \in 1..Len(last.result) :
              last.result[k][1] \in Vertices /\ last.result[k][2] \in Vertices

\* the network A-B-C-D with the branch B-E has been created
IsNetwork == Len(points) = Len(NetPoints) /\ Len(lines) = Len(NetPairs)

\* get_paths_between_endpoints(s, e) has returned on the network, no filter
PathsQueried(s, e) ==
    /\ IsNetwork
    /\ last.op = "get_paths_between_endpoints"
    /\ last.start = s /\ last.end = e
    /\ last.filter = NoMeta

\* the result is one path, along the given coordinates, of the given length
OnePath(route, length) ==
    /\ Len(last.result) = 1
    /\ last.result[1].path = route
    /\ last.result[1].length = length

\* C9 as stated: in the network A-B-C-D with the branch B-E,
\* get_paths_between_endpoints(A, D) returns exactly one path, A-B-C-D, of
\* length 3, and get_paths_between_endpoints(A, E) exactly one path, of
\* length 1.
C9_PathsAsStated ==
    /\ PathsQueried(NetPoints[1], NetPoints[4]) =>
          OnePath(<<NetPoints[1], NetPoints[2], NetPoints[3], NetPoints[4]>>, 3)
    /\ PathsQueried(NetPoints[1], NetPoints[5]) =>
          /\ Len(last.result) = 1
          /\ last.result[1].length = 1

\* C9, amended: get_paths_between_endpoints(A, D) returns exactly one path,
\* A-B-C-D, of length 3, and get_paths_between_endpoints(A, E) exactly one
\* path, A-B-E, of length 2.
C9_Paths ==
    /\ PathsQueried(NetPoints[1], NetPoints[4]) =>
          OnePath(<<NetPoints[1], NetPoints[2], NetPoints[3], NetPoints[4]>>, 3)
    /\ PathsQueried(NetPoints[1], NetPoints[5]) =>
          OnePath(<<NetPoints[1], NetPoints[2], NetPoints[5]>>, 2)

\* the path from A to E has been returned
C9_Witness ==
    /\ PathsQueried(NetPoints[1], NetPoints[5])
    /\ last.result # <<>>

\* an active point at the coordinate has is_end = True in its metadata
IsEndAt(c) ==
    \E i \in Roots(points) :
        /\ PointCoord(points[i]) = c
        /\ ~points[i].metavar.none
        /\ "is_end" \in DOMAIN points[i].metavar.d
        /\ points[i].metavar.d["is_end"] = BoolV(TRUE)

\* the vertices of a path other than its first and its last
Intermediates(route) == {route[k] : k \in 2..(Len(route) - 1)}

\* a query with {is_end: True} as the filter of the intermediate vertices
FilteredQuery ==
    /\ last.op \in {"get_all_endpoint_paths", "get_paths_between_endpoints",
                    "get_paths_between_point_groups"}
    /\ last.filter = IsEnd(TRUE)

\* the simple paths between two coordinates of the graph, as coordinates
SimpleRoutes(s, e) ==
    LET g == create_igraph(points, lines)
        paths == get_all_simple_paths(g, VertexOf(g, s), VertexOf(g, e))
    IN  {[k \in 1..Len(paths[n]) |-> g.vs[paths[n][k] + 1]] : n \in 1..Len(paths)}

\* C10: with {is_end: True} as end_filter of get_all_endpoint_paths or as
\* avoid_intermediate_filter of get_paths_between_endpoints and
\* get_paths_between_point_groups, no returned path has an intermediate vertex
\* with is_end = True, and a pair all of whose simple paths pass through such
\* a vertex contributes no path.
C10_FilterCorrect ==
    FilteredQuery =>
        /\ \A k \in 1..Len(last.result) :
              \A c \in Intermediates(last.result[k].path) : ~IsEndAt(c)
        /\ \A s, e \in Vertices :
              (/\ s # e
               /\ \A route \in SimpleRoutes(s, e) :
                     \E c \in Intermediates(route) : IsEndAt(c))
              => ~\E k \in 1..Len(last.result) :
                     last.result[k].start = s /\ last.result[k].end = e

\* a filtered query that returned a path with an intermediate vertex while
\* another path between the two was dropped for its second intermediate vertex
C10_Witness ==
    /\ FilteredQuery
    /\ \E k \in 1..Len(last.result) : Len(last.result[k].path) > 2
    /\ last.op = "get_paths_between_endpoints"
    /\ \E route \in SimpleRoutes(last.start, last.end) :
          /\ Len(route) > 3
          /\ ~IsEndAt(route[2])
          /\ IsEndAt(route[3])

(***************************************************************************)
(* The graph as a function of the active set.                              *)
(***************************************************************************)
\* the active lines both ends of which are at active points
Connected == {i \in 1..Len(lines) :
                 /\ ~lines[i].is_split
                 /\ LineStart(lines[i]) \in Vertices
                 /\ LineEnd(lines[i]) \in Vertices}

\* the active lines an end of which is at no active point
Omitted == {i \in 1..Len(lines) : ~lines[i].is_split /\ i \notin Connected}

\* C11: the graph create_igraph builds has exactly one vertex per active
\* point, labelled by its coordinate, and exactly one edge per active line
\* both ends of which are at active points; merged points, split lines and
\* active lines with an end at no active point do not appear in it.
C11_GraphFromActiveSet ==
    LET g == create_igraph(points, lines)
    IN  /\ Len(g.vs) = Cardinality(Roots(points))
        /\ \A k \in 1..Len(g.vs) :
              Cardinality({j \in 1..Len(g.vs) : g.vs[j] = g.vs[k]})
              = Cardinality({i \in Roots(points) : PointCoord(points[i]) = g.vs[k]})
        /\ \A i \in Roots(points) : \E k \in 1..Len(g.vs) : g.vs[k] = PointCoord(points[i])
        /\ Len(g.es) = Cardinality(Connected)
        /\ \A k \in 1..Len(g.es) :
              /\ g.es[k][1] \in 0..(Len(g.vs) - 1)
              /\ g.es[k][2] \in 0..(Len(g.vs) - 1)
              /\ Cardinality({j \in 1..Len(g.es) : g.es[j] = g.es[k]})
                 = Cardinality({i \in Connected :
                                   /\ LineStart(lines[i]) = g.vs[g.es[k][1] + 1]
                                   /\ LineEnd(lines[i]) = g.vs[g.es[k][2] + 1]})

\* a store with a merged point, an active line that ends at it and an active
\* line between active points
C11_Witness ==
    /\ Merged(points) # {}
    /\ Omitted # {}
    /\ Connected # {}
    /\ last.op = "get_endpoint_pairs"

(***************************************************************************)
(* Empty results.                                                          *)
(***************************************************************************)
\* the store the last call ran on: merge and split record it, a query leaves
\* the store as it is
StoreBefore ==
    IF last.op \in {"merge_nearby_points", "split_lines_on_points"} THEN pre ELSE Store

NoActivePoints(S) == Roots(S.points) = {}
NoActiveLines(S) == \A i \in 1..Len(S.lines) : S.lines[i].is_split

\* the coordinates of a list that are coordinates of active points
RECURSIVE Resolved(_)
Resolved(cs) ==
    IF cs = <<>> THEN <<>>
    ELSE IF Head(cs) \in Vertices THEN <<Head(cs)>> \o Resolved(Tail(cs))
    ELSE Resolved(Tail(cs))

\* get_paths_between_endpoints returns [] for a coordinate of no active point
UnresolvedIsEmpty ==
    (/\ last.op = "get_paths_between_endpoints"
     /\ (last.start \notin Vertices \/ last.end \notin Vertices))
    => last.result = <<>>

\* get_paths_between_point_groups returns what it returns without the
\* coordinates of no active point, and its paths run between the others
UnresolvedIgnored ==
    last.op = "get_paths_between_point_groups" =>
        /\ last.result = get_paths_between_point_groups(points, lines,
                             Resolved(last.start_points), Resolved(last.end_points),
                             last.filter)
        /\ \A k \in 1..Len(last.result) :
              /\ last.result[k].start \in Range(last.start_points) \cap Vertices
              /\ last.result[k].end \in Range(last.end_points) \cap Vertices

\* the last call returned [] and left the store as it was
EmptyAndUnchanged == last.result = <<>> /\ Store = StoreBefore

\* C12 as stated: get_paths_between_endpoints returns [] for a coordinate of
\* no active point, get_paths_between_point_groups ignores such coordinates,
\* and merge_nearby_points, split_lines_on_points, get_endpoint_pairs and
\* get_all_endpoint_paths on a store with no active points or no active lines
\* return [] and change nothing.
C12_EmptyAsStated ==
    /\ UnresolvedIsEmpty
    /\ UnresolvedIgnored
    /\ (/\ last.op \in {"merge_nearby_points", "split_lines_on_points",
                        "get_endpoint_pairs", "get_all_endpoint_paths"}
        /\ (NoActivePoints(StoreBefore) \/ NoActiveLines(StoreBefore)))
       => EmptyAndUnchanged

\* C12, amended: the same, but merge_nearby_points returns [] and changes
\* nothing on a store with no active points only (without lines it still
\* merges the points that are within the margin).
C12_EmptyResults ==
    /\ UnresolvedIsEmpty
    /\ UnresolvedIgnored
    /\ (/\ last.op \in {"split_lines_on_points", "get_endpoint_pairs",
                        "get_all_endpoint_paths"}
        /\ (NoActivePoints(StoreBefore) \/ NoActiveLines(StoreBefore)))
       => EmptyAndUnchanged
    /\ (last.op = "merge_nearby_points" /\ NoActivePoints(StoreBefore))
       => EmptyAndUnchanged

\* get_paths_between_point_groups was given a coordinate of no active point
\* and one of an active point in both lists, and found a path
C12_Witness ==
    /\ last.op = "get_paths_between_point_groups"
    /\ Range(last.start_points) \ Vertices # {}
    /\ Range(last.end_points) \ Vertices # {}
    /\ last.result # <<>>

(***************************************************************************)
(* Soft delete.                                                            *)
(***************************************************************************)
\* every record of the store is still there after the step, a point where it
\* was, and a flag that was set is still set
RecordsKept ==
    /\ Len(points') >= Len(points)
    /\ Len(lines') >= Len(lines)
    /\ \A i \in 1..Len(points) :
          /\ PointCoord(points'[i]) = PointCoord(points[i])
          /\ points[i].is_merged => points'[i].is_merged
    /\ \A i \in 1..Len(lines) :
          /\ lines'[i].metavar = lines[i].metavar
          /\ lines[i].is_split => lines'[i].is_split

\* C13: no operation of the builder removes a Point or a Line record, and no
\* operation sets is_merged or is_split back to false.
C13_SoftDeleteOnly == [][RecordsKept]_vars

\* lines were created in a store that held a merged point, and one of them
\* ends at its coordinate
C13_Witness ==
    /\ last.op = "create_lines_from_coordinates"
    /\ \E i \in Merged(points) :
          \E k \in 1..Len(last.result) :
             PointCoord(points[i]) \in {LineStart(last.result[k]), LineEnd(last.result[k])}

(***************************************************************************)
(* The forest of merged points.                                            *)
(***************************************************************************)
\* the points visited from p along merged_into, p first, in at most k steps
RECURSIVE Visited(_, _, _)
Visited(pts, p, k) ==
    IF p = 0 THEN <<>>
    ELSE IF IsRoot(pts, p) \/ k = 0 THEN <<p>>
    ELSE <<p>> \o Visited(pts, pts[p].merged_into, k - 1)

AllPoints(pts) == 1..Len(pts)

\* the coordinates at the ends of a list of lines
EndsOfLines(lns) == UNION {{LineStart(lns[k]), LineEnd(lns[k])} : k \in 1..Len(lns)}

\* no two Point records have the same coordinate
NoTwoPointsAt(pts) ==
    \A i, j \in AllPoints(pts) : i # j => PointCoord(pts[i]) # PointCoord(pts[j])

\* a create_lines_from_coordinates step keeps the points there were, adds one
\* point for every coordinate of the new lines that was not stored, and
\* nothing else
PointsByCoordinate ==
    last'.op = "create_lines_from_coordinates" =>
        /\ \A i \in AllPoints(points) : points'[i] = points[i]
        /\ CoordsOf(points', AllPoints(points'))
           = CoordsOf(points, AllPoints(points)) \cup EndsOfLines(last'.result)
        /\ Len(points') = Cardinality(CoordsOf(points', AllPoints(points')))

\* C15: after every step no two Point records have the same (x, y); a
\* create_lines_from_coordinates call reuses the point stored at a coordinate,
\* creates one point for each coordinate not stored, and both ends of every
\* line it creates are at the coordinate of a point of the store.
C15_ExactCoordinates ==
    [][/\ NoTwoPointsAt(points')
       /\ PointsByCoordinate]_vars

\* lines were created of which one ends at the coordinate of a point that was
\* merged before and another at a coordinate that was not stored
C15_Witness ==
    /\ last.op = "create_lines_from_coordinates"
    /\ Len(last.result) = 2
    /\ \E i \in Merged(points) : PointCoord(points[i]) \in EndsOfLines(last.result)
    /\ point_cache[<<3, 0>>] = Len(points)

(***************************************************************************)
(* The paths between the natural endpoints.                                *)
(***************************************************************************)
\* the vertex indices of a graph
VertexIds(g) == 0..(Len(g.vs) - 1)

\* two vertices are joined by an edge
Adjacent(g, u, v) ==
    \E k \in 1..Len(g.es) : g.es[k] = <<u, v>> \/ g.es[k] = <<v, u>>

\* the simple paths of a graph from s to e: the lists of distinct vertices
\* from s to e in which every vertex is adjacent to the next
SimplePathsOf(g, s, e) ==
    {p \in UNION {[1..n -> VertexIds(g)] : n \in 2..Len(g.vs)} :
        /\ p[1] = s /\ p[Len(p)] = e
        /\ \A i, j \in 1..Len(p) : i # j => p[i] # p[j]
        /\ \A i \in 1..(Len(p) - 1) : Adjacent(g, p[i], p[i + 1])}

\* the natural endpoints: the vertices of degree 1
NaturalEndpoints(g) == {v \in VertexIds(g) : degree(g, v) = 1}

\* get_all_endpoint_paths() has returned, called without any filter
UnfilteredQuery ==
    /\ last.op = "get_all_endpoint_paths"
    /\ last.endpoint_filter = NoMeta
    /\ last.start_filter = NoMeta
    /\ last.filter = NoMeta

ExactMatch(mv, f) ==
    \A key \in DOMAIN f.d :
        /\ ~mv.none
        /\ key \in DOMAIN mv.d
        /\ PyEq(mv.d[key], f.d[key])

\* the metadata of the active point at a coordinate
MetadataAt(c) ==
    points[CHOOSE i \in Roots(points) : PointCoord(points[i]) = c].metavar

\* the metadata has no is_end key, or is_end = False
NotAnEnd(mv) ==
    \/ mv.none
    \/ "is_end" \notin DOMAIN mv.d
    \/ PyEq(mv.d["is_end"], BoolV(FALSE))

\* get_all_endpoint_paths has returned, called with both a start_filter and
\* an end_filter
StartEndQuery ==
    /\ last.op = "get_all_endpoint_paths"
    /\ ~last.start_filter.none
    /\ ~last.filter.none

\* C17: every path get_all_endpoint_paths returns when it is called with a
\* start_filter and an end_filter starts at a vertex of degree 1 whose
\* metadata has no is_end key or is_end = False and matches start_filter, ends
\* at a vertex that matches end_filter, and its start does not match
\* end_filter.
C17_StartEndFilters ==
    StartEndQuery =>
        \A k \in 1..Len(last.result) :
            LET r == last.result[k]
            IN  /\ DegreeAt(r.start) = 1
                /\ NotAnEnd(MetadataAt(r.start))
                /\ ExactMatch(MetadataAt(r.start), last.start_filter)
                /\ ExactMatch(MetadataAt(r.end), last.filter)
                /\ ~ExactMatch(MetadataAt(r.start), last.filter)

\* the same for the calls with an end_filter that has a key
C17_NonEmptyEndFilter ==
    (StartEndQuery /\ DOMAIN last.filter.d = {}) \/ C17_StartEndFilters

\* C18: _matches_filter(point, filter) is true exactly when the metadata of
\* the point holds every key of the filter with a value equal to the
\* filter's: always for the empty filter, never for a filter with a key and a
\* point without metadata or without that key.
C18_ExactMatch ==
    last.op = "_matches_filter" =>
        (last.result <=> ExactMatch(points[last.point].metavar, last.filter))

\* the same for the filters that have a key
C18_NonEmptyFilter ==
    (last.op = "_matches_filter" /\ DOMAIN last.filter.d = {}) \/ C18_ExactMatch

\* what the merge rules give for two values under a key of the maximize
\* class maxKeys, of the any-true class anyKeys, or under "name" or "type":
\* the larger of two numbers, the disjunction of two booleans, two differing
\* strings joined by " / " with P1's first
ClassRules(maxKeys, anyKeys) ==
    \A key \in ClassKeys :
        MergedOn(key) =>
            LET v1 == pre.points[1].metavar.d[key]
                v2 == pre.points[2].metavar.d[key]
                r == points[1].metavar.d[key]
            IN  /\ (key \in maxKeys /\ IsNumber(v1) /\ IsNumber(v2)) =>
                      /\ r \in {v1, v2}
                      /\ r.n >= v1.n /\ r.n >= v2.n
                /\ (key \in anyKeys /\ IsBool(v1) /\ IsBool(v2)) =>
                      /\ r.t = "bool"
                      /\ (r.n = 1) <=> (v1.n = 1 \/ v2.n = 1)
                /\ (key \in {"name", "type"} /\ IsStr(v1) /\ IsStr(v2) /\ v1.s # v2.s) =>
                      r = StrV(v1.s \o " / " \o v2.s)

MergedPair ==
    /\ AfterMerge
    /\ last.result = <<2>>
    /\ points[2].merged_into = 1
    /\ Len(pre.points) = 2

\* a number; a boolean is one when boolIsNumber
Numeric(v, boolIsNumber) == v.t = "int" \/ (boolIsNumber /\ v.t = "bool")

\* one of the list, maximize, any-true and string rules applies to the two
\* values under the key
RuleApplies(key, v1, v2, boolIsNumber) ==
    \/ v1.t = "list" /\ v2.t = "list"
    \/ /\ key \in {"capacity", "priority_level", "area", "beds"}
       /\ Numeric(v1, boolIsNumber) /\ Numeric(v2, boolIsNumber)
    \/ key \in {"emergency", "parking", "traffic_light"} /\ v1.t = "bool" /\ v2.t = "bool"
    \/ key \in {"name", "type"} /\ v1.t = "str" /\ v2.t = "str" /\ v1.s # v2.s

\* first-writer wins: P1 keeps its value under a key of both points that no
\* rule applies to and takes P2's value under a key of P2 alone; P2's
\* metadata is as before, and so is P1's when P2 has none
FirstWriterWins(boolIsNumber) ==
    MergedPair =>
        LET m1 == pre.points[1].metavar
            m2 == pre.points[2].metavar
            r == points[1].metavar
        IN  /\ points[2].metavar = m2
            /\ m2.none => r = m1
            /\ ~m2.none =>
                  /\ ~r.none
                  /\ \A key \in DOMAIN m2.d :
                        /\ key \in DOMAIN r.d
                        /\ key \notin DOMAIN m1.d => r.d[key] = m2.d[key]
                        /\ (key \in DOMAIN m1.d
                              /\ ~RuleApplies(key, m1.d[key], m2.d[key], boolIsNumber))
                             => r.d[key] = m1.d[key]

\* C20 as stated: with booleans and numbers as values of different shapes,
\* P1 keeps its value under every key of both points that no list, maximize,
\* any-true or string rule applies to, a key of P2 alone is added to P1 with
\* P2's value, P2's metadata is not changed, and P1's is unchanged when P2
\* has no metadata
C20_DefaultAsStated == FirstWriterWins(FALSE)

\* C20: the same, a boolean counting as a number under a maximize key
C20_FirstWriterWins == FirstWriterWins(TRUE)

\* a merge in which P1 kept its string under "hours" against P2's and took
\* the key that P2 alone had
C20_Witness ==
    /\ MergedPair
    /\ pre.points[1].metavar = set_metadata(NoMeta, "hours", StrV("a"))
    /\ pre.points[2].metavar = set_metadata(set_metadata(NoMeta, "hours", StrV("b")), OwnKey, BoolV(TRUE))
    /\ points[1].metavar = set_metadata(set_metadata(NoMeta, "hours", StrV("a")), OwnKey, BoolV(TRUE))
    /\ points[2].metavar = pre.points[2].metavar

(***************************************************************************)
(* The merge scan, the margin, the frames of the engines.                  *)
(***************************************************************************)
\* the roots of the store before the call that the scan leaves roots: a root
\* stays one when no earlier root that stays one is within the margin of it
RECURSIVE StaysRoot(_)
StaysRoot(p) ==
    /\ IsRoot(pre.points, p)
    /\ \A q \in 1..(p - 1) :
          ~(StaysRoot(q) /\ Close(pre.points[q], pre.points[p], last.margin))

\* the first root that stays one within the margin of p
FirstRootNear(p) ==
    CHOOSE q \in 1..(p - 1) :
        /\ StaysRoot(q) /\ Close(pre.points[q], pre.points[p], last.margin)
        /\ \A r \in 1..(q - 1) :
              ~(StaysRoot(r) /\ Close(pre.points[r], pre.points[p], last.margin))

\* the metadata of root q after the points merged into it, taken in creation
\* order from point p on, have been reconciled with mv
RECURSIVE Reconciled(_, _, _)
Reconciled(mv, q, p) ==
    IF p > Len(pre.points) THEN mv
    ELSE IF IsRoot(pre.points, p) /\ ~StaysRoot(p) /\ FirstRootNear(p) = q
         THEN Reconciled(_merge_point_metadata(mv, pre.points[p].metavar), q, p + 1)
         ELSE Reconciled(mv, q, p + 1)

\* the active points before the call are A, B, C, created in this order, with
\* A near B, B near C and A not near C
Chained(A, B, C) ==
    /\ Roots(pre.points) = {A, B, C}
    /\ A < B /\ B < C
    /\ Close(pre.points[A], pre.points[B], last.margin)
    /\ Close(pre.points[B], pre.points[C], last.margin)
    /\ ~Close(pre.points[A], pre.points[C], last.margin)

\* C21: every point merged by a merge_nearby_points call is merged into a
\* point created before it that is a root when the call returns and within
\* the margin of it; of active points A, B, C created in this order with A
\* near B, B near C and A not near C, B is merged into A and C stays a root;
\* roots, merged_into links and metadata are the function of the store and
\* the margin that the scan in creation order with first-seen roots defines
C21_SinglePass ==
    AfterMerge =>
        /\ \A k \in 1..Len(last.result) :
              LET p2 == last.result[k]
                  p1 == points[p2].merged_into
              IN  /\ p1 \in 1..(p2 - 1)
                  /\ IsRoot(points, p1)
                  /\ Close(pre.points[p1], pre.points[p2], last.margin)
        /\ \A A, B, C \in 1..Len(pre.points) :
              Chained(A, B, C) =>
                 /\ points[B].is_merged /\ points[B].merged_into = A
                 /\ IsRoot(points, A) /\ IsRoot(points, C)
        /\ Len(points) = Len(pre.points)
        /\ \A p \in 1..Len(pre.points) :
              IF ~IsRoot(pre.points, p) THEN points[p] = pre.points[p]
              ELSE IF StaysRoot(p)
              THEN points[p] = [pre.points[p] EXCEPT
                                   !.metavar = Reconciled(pre.points[p].metavar, p, p + 1)]
              ELSE points[p] = [pre.points[p] EXCEPT
                                   !.is_merged = TRUE, !.merged_into = FirstRootNear(p)]

\* a merge of a chain A, B, C: B has been merged into A, C is a root
C21_Witness ==
    /\ AfterMerge
    /\ \E A, B, C \in 1..Len(pre.points) :
          /\ Chained(A, B, C)
          /\ points[B].merged_into = A
          /\ IsRoot(points, C)
          /\ last.result = <<B>>

\* two roots of the store before the call, the first created before the second
RootPairs ==
    {pq \in Roots(pre.points) \X Roots(pre.points) : pq[1] < pq[2]}

SquaredDistance(p, q) == Sq(p.x - q.x) + Sq(p.y - q.y)

\* C22: merge_nearby_points with a negative margin merges nothing; with
\* margin 0 it merges the points at exactly the same coordinate and no
\* others; with a positive margin two roots at a distance exactly equal to
\* the margin do not both stay roots
C22_MarginEdges ==
    AfterMerge =>
        /\ last.margin < 0 =>
              /\ last.result = <<>>
              /\ points = pre.points
              /\ lines = pre.lines
        /\ last.margin = 0 =>
              /\ \A k \in 1..Len(last.result) :
                    PointCoord(points[last.result[k]])
                        = PointCoord(points[points[last.result[k]].merged_into])
              /\ \A pq \in RootPairs :
                    PointCoord(pre.points[pq[1]]) = PointCoord(pre.points[pq[2]])
                        => points[pq[2]].is_merged
        /\ last.margin > 0 =>
              \A pq \in RootPairs :
                  SquaredDistance(pre.points[pq[1]], pre.points[pq[2]]) = Sq(last.margin)
                      => ~IsRoot(points, pq[1]) \/ ~IsRoot(points, pq[2])

\* a merge with margin 0 of two points at the same coordinate that left a
\* point elsewhere a root
C22_Witness ==
    /\ AfterMerge
    /\ last.margin = 0
    /\ Len(last.result) = 1
    /\ \E p \in Roots(points) :
          PointCoord(points[p]) # PointCoord(points[last.result[1]])

QueryOps == {"get_endpoint_pairs", "get_paths_between_endpoints",
             "get_all_endpoint_paths", "get_paths_between_point_groups"}

\* a merge_nearby_points step: no record is created; a point keeps its
\* coordinate and changes only in is_merged and merged_into when it is
\* returned as merged, or only in its metadata when it is a root; a line keeps
\* is_split and its metadata
FrameOfMerge ==
    last'.op = "merge_nearby_points" =>
        /\ Len(points') = Len(points)
        /\ Len(lines') = Len(lines)
        /\ point_cache' = point_cache
        /\ \A p \in 1..Len(points) :
              /\ PointCoord(points'[p]) = PointCoord(points[p])
              /\ \/ points'[p] = points[p]
                 \/ /\ p \in Range(last'.result)
                    /\ points'[p].is_merged
                    /\ points'[p] = [points[p] EXCEPT !.is_merged = TRUE,
                                                      !.merged_into = points'[p].merged_into]
                 \/ /\ IsRoot(points', p)
                    /\ points'[p] = [points[p] EXCEPT !.metavar = points'[p].metavar]
        /\ \A i \in 1..Len(lines) :
              /\ lines'[i].is_split = lines[i].is_split
              /\ lines'[i].metavar = lines[i].metavar

\* a split_lines_on_points step: the points are as before; the lines that
\* were there keep their ends and metadata and are not made active again; the
\* lines returned are added after them
FrameOfSplit ==
    last'.op = "split_lines_on_points" =>
        /\ points' = points
        /\ point_cache' = point_cache
        /\ Len(lines') = Len(lines) + Len(last'.result)
        /\ \A i \in 1..Len(lines) :
              /\ lines'[i] = [lines[i] EXCEPT !.is_split = lines'[i].is_split]
              /\ lines[i].is_split => lines'[i].is_split

FrameOfQueries ==
    last'.op \in QueryOps => UNCHANGED <<points, lines, point_cache>>

\* C23: merge_nearby_points changes only is_merged and merged_into of the
\* points it merges, the metadata of roots and the ends of lines, and creates
\* no record; split_lines_on_points changes only is_split of lines and adds
\* lines; the graph and path queries change nothing
C23_Frames == [][FrameOfMerge /\ FrameOfSplit /\ FrameOfQueries]_vars

\* a merge that changed the flags of a point, the metadata of a root and an
\* end of a line
C23_Witness ==
    /\ AfterMerge
    /\ last.result # <<>>
    /\ \E p \in Roots(points) : points[p].metavar # pre.points[p].metavar
    /\ \E i \in 1..Len(lines) : EndsOf(lines[i]) # EndsOf(pre.lines[i])

(***************************************************************************)
(* The path records.                                                       *)
(***************************************************************************)
PathOps == {"get_paths_between_endpoints", "get_all_endpoint_paths",
            "get_paths_between_point_groups"}

\* an active line joins the two coordinates
Joined(c1, c2) ==
    \E i \in 1..Len(lines) :
        /\ ~lines[i].is_split
        /\ \/ LineStart(lines[i]) = c1 /\ LineEnd(lines[i]) = c2
           \/ LineStart(lines[i]) = c2 /\ LineEnd(lines[i]) = c1

\* the coordinate of vertex v: that of the (v + 1)-th active point
VertexCoord(v) == PointCoord(points[ActivePointIds(points)[v + 1]])

WellFormed(r) ==
    /\ Len(r.vertex_indices) >= 2
    /\ \A i, j \in 1..Len(r.vertex_indices) :
          i # j => r.vertex_indices[i] # r.vertex_indices[j]
    /\ \A i \in 1..Len(r.vertex_indices) :
          r.vertex_indices[i] \in 0..(Cardinality(Roots(points)) - 1)
    /\ Len(r.path) = Len(r.vertex_indices)
    /\ \A i \in 1..Len(r.path) : r.path[i] = VertexCoord(r.vertex_indices[i])
    /\ r.path[1] = r.start
    /\ r.path[Len(r.path)] = r.end
    /\ r.start # r.end
    /\ \A i \in 1..(Len(r.path) - 1) : Joined(r.path[i], r.path[i + 1])
    /\ r.length = Len(r.vertex_indices) - 1

\* C24: every path record returned by get_all_endpoint_paths,
\* get_paths_between_endpoints and get_paths_between_point_groups has a
\* vertex sequence without a repeated vertex that goes from the record's
\* start to its end, which differ, along active lines; its length is the
\* number of vertices minus one and its coordinate sequence gives the
\* coordinates of the vertex indices in order
C24_PathsWellFormed ==
    last.op \in PathOps => \A k \in 1..Len(last.result) : WellFormed(last.result[k])

\* the group query has returned a path of three or more lines
C24_Witness ==
    /\ last.op = "get_paths_between_point_groups"
    /\ \E k \in 1..Len(last.result) : last.result[k].length >= 3

\* C25: when merge_nearby_points(margin) returns, every two distinct active
\* points are at a distance greater than the margin; the list returned holds
\* the points that were active before the call and are merged after it, each
\* once, and the number of active points has dropped by its length
C25_RootsApart ==
    AfterMerge =>
        /\ \A p, q \in Roots(points) :
              p # q => (last.margin < 0
                        \/ SquaredDistance(points[p], points[q]) > Sq(last.margin))
        /\ Range(last.result) = Roots(pre.points) \ Roots(points)
        /\ Cardinality(Range(last.result)) = Len(last.result)
        /\ Cardinality(Roots(points)) = Cardinality(Roots(pre.points)) - Len(last.result)

\* a merge with a positive margin that merged a point and left two roots
C25_Witness ==
    /\ AfterMerge
    /\ last.margin > 0
    /\ Len(last.result) = 1
    /\ Cardinality(Roots(points)) = 2
    /\ Cardinality(Roots(pre.points)) = 3

\* the active points within the tolerance of the segment l, its ends apart
StrayPoints(pts, l, tol) ==
    {p \in Roots(pts) :
        /\ PointCoord(pts[p]) \notin {LineStart(l), LineEnd(l)}
        /\ NearSegment(LineStart(l), LineEnd(l), PointCoord(pts[p]), tol)}

\* a split_lines_on_points step that follows one with the same tolerance
SplitAgain ==
    /\ last.op = "split_lines_on_points"
    /\ last'.op = "split_lines_on_points"
    /\ last'.tolerance = last.tolerance

\* C26 as stated: a split_lines_on_points(tolerance) call made right after
\* another one with the same tolerance returns an empty list and marks no
\* further line as split, and no segment a call has created has an active
\* point within the tolerance of it other than at its own ends
C26_SplitFixedPoint ==
    [][/\ SplitAgain => (last'.result = <<>> /\ lines' = lines)
       /\ last'.op = "split_lines_on_points" =>
             \A k \in 1..Len(last'.result) :
                 StrayPoints(points', last'.result[k], last'.tolerance) = {}]_vars

(***************************************************************************)
(* Lines whose two ends come to the same root.                             *)
(***************************************************************************)
\* the root of the store before the call at a coordinate, 0 when none is
RootAt(c) ==
    IF \E p \in Roots(pre.points) : PointCoord(pre.points[p]) = c
    THEN CHOOSE p \in Roots(pre.points) : PointCoord(pre.points[p]) = c
    ELSE 0

\* the root a root of the store before the call belongs to after it
RootAfter(p) == IF IsRoot(points, p) THEN p ELSE points[p].merged_into

\* the lines, active before the call, whose ends were at two roots that the
\* call has brought to one root
Collapsed ==
    {i \in ActiveBefore :
        LET s == RootAt(LineStart(pre.lines[i]))
            e == RootAt(LineEnd(pre.lines[i]))
        IN  s # 0 /\ e # 0 /\ s # e /\ RootAfter(s) = RootAfter(e)}

\* the active lines that start and end at a coordinate
LoopsAt(c) ==
    {i \in 1..Len(lines) : ~lines[i].is_split /\ LineStart(lines[i]) = c /\ LineEnd(lines[i]) = c}

\* C27: a line whose two ends come to the same root in a merge stays in the
\* store as an active line from the root's coordinate to itself; in the graph
\* of create_igraph every such line is a self-loop that adds 2 to the degree
\* of the root, and a root whose only lines are such loops is no endpoint of
\* get_endpoint_pairs
C27_DegenerateLines ==
    /\ AfterMerge =>
          /\ Len(lines) = Len(pre.lines)
          /\ \A i \in Collapsed :
                LET root == points[RootAfter(RootAt(LineStart(pre.lines[i])))]
                IN  /\ IsRoot(points, RootAfter(RootAt(LineStart(pre.lines[i]))))
                    /\ ~lines[i].is_split
                    /\ LineStart(lines[i]) = PointCoord(root)
                    /\ LineEnd(lines[i]) = PointCoord(root)
    /\ \A c \in Vertices :
          LET g == create_igraph(points, lines)
              v == VertexOf(g, c)
              loops == Cardinality(LoopsAt(c))
          IN  /\ Cardinality({k \in 1..Len(g.es) : g.es[k] = <<v, v>>}) = loops
              /\ degree(g, v) =
                    2 * loops + Cardinality({k \in 1..Len(g.es) :
                                                g.es[k] # <<v, v>> /\ v \in {g.es[k][1], g.es[k][2]}})
              /\ (loops >= 1 /\ References(c) = 2 * loops) =>
                    /\ degree(g, v) = 2 * loops
                    /\ last.op = "get_endpoint_pairs" =>
                          \A k \in 1..Len(last.result) :
                              c \notin {last.result[k][1], last.result[k][2]}

\* a merge has brought the two ends of a line to one root, which has no other
\* line
C27_Witness ==
    /\ AfterMerge
    /\ \E i \in Collapsed :
          /\ LineStart(lines[i]) = LineEnd(lines[i])
          /\ References(LineStart(lines[i])) = 2
          /\ DegreeAt(LineStart(lines[i])) = 2

(***************************************************************************)
(* The queries against one another.                                        *)
(***************************************************************************)
\* get_all_endpoint_paths has returned, called with one of start_filter and
\* end_filter and without the other
OneSided ==
    /\ last.op = "get_all_endpoint_paths"
    /\ last.start_filter.none # last.filter.none

\* C28: get_all_endpoint_paths called with exactly one of start_filter and
\* end_filter returns an empty list, whatever the network and the filter
C28_OneSidedIsEmpty == OneSided => last.result = <<>>

\* the query with end_filter alone on a network for which the same end_filter
\* with an empty start_filter gives paths
C28_Witness ==
    /\ OneSided
    /\ last.start_filter.none
    /\ last.filter = IsEnd(TRUE)
    /\ last.result = <<>>
    /\ get_all_endpoint_paths(points, lines, NoMeta, EmptyDict, IsEnd(TRUE)) # <<>>

\* the coordinates of the natural endpoints, in vertex order
EndpointCoords ==
    LET g == create_igraph(points, lines)
        idx == EndpointIndices(g, 0)
    IN  [k \in 1..Len(idx) |-> g.vs[idx[k] + 1]]

\* get_paths_between_endpoints(s, e, f) returns what the group query returns
\* for [s], [e], f
PairAsGroups ==
    (/\ last.op = "get_paths_between_endpoints"
     /\ last.start # last.end
     /\ last.start \in Vertices /\ last.end \in Vertices)
    => last.result = get_paths_between_point_groups(points, lines, <<last.start>>,
                                                    <<last.end>>, last.filter)

\* get_all_endpoint_paths() returns what the group query returns for the
\* natural endpoints on both sides
AllAsGroups ==
    UnfilteredQuery
    => last.result = get_paths_between_point_groups(points, lines, EndpointCoords,
                                                    EndpointCoords, NoMeta)

\* the group query returns no path from a vertex to itself
NoPathToItself ==
    last.op = "get_paths_between_point_groups"
    => \A k \in 1..Len(last.result) : last.result[k].start # last.result[k].end

\* no two active points are at the same coordinate
DistinctVertices == Cardinality(Vertices) = Cardinality(Roots(points))

BareSegments ==
    AfterSplit =>
        /\ \A k \in 1..Len(last.result) : last.result[k].metavar = NoMeta
        /\ \A i \in (Len(pre.lines) + 1)..Len(lines) : lines[i].metavar = NoMeta

\* the lines that were there before a split or a merge keep their metadata,
\* and before a split their ends too
KeptLineMetadata ==
    (AfterSplit \/ AfterMerge) =>
        \A i \in 1..Len(pre.lines) :
            /\ lines[i].metavar = pre.lines[i].metavar
            /\ AfterSplit => EndsOf(lines[i]) = EndsOf(pre.lines[i])

\* the i-th line created joins the i-th pair and holds the items of the i-th
\* dictionary, or has no metadata when the list ends before i
CreatedAsListed ==
    (last.op = "create_lines_from_coordinates" /\ "line_metadata" \in DOMAIN last) =>
        /\ Len(last.result) = Len(last.coordinate_pairs)
        /\ \A i \in 1..Len(last.result) :
              LET l == lines[Len(lines) - Len(last.result) + i]
              IN  /\ l = last.result[i]
                  /\ <<LineStart(l), LineEnd(l)>> = last.coordinate_pairs[i]
                  /\ IF i <= Len(last.line_metadata)
                     THEN l.metavar.d = last.line_metadata[i].d
                     ELSE l.metavar = NoMeta

\* C30: the segments created by split_lines_on_points carry no metadata,
\* whatever the split line had; the split line keeps its metadata and its
\* ends; no line receives metadata in a merge; create_lines_from_coordinates
\* gives the i-th dictionary to the line of the i-th pair and none to the
\* pairs beyond the end of the list
C30_LineMetadata == BareSegments /\ KeptLineMetadata /\ CreatedAsListed

\* a line created with a road type has been split into segments
C30_Witness ==
    /\ AfterSplit
    /\ last.result # <<>>
    /\ \E i \in 1..Len(pre.lines) :
          /\ ~pre.lines[i].is_split
          /\ lines[i].is_split
          /\ lines[i].metavar = Road

====
